---------------------------- MODULE Spec2Model ----------------------------
(***************************************************************************)
(* A model of SnapSummary's in-page content extractor                      *)
(* (content-extractor.js): the scroll wait, the metadata resolver, the     *)
(* content locator, the noise filter, the structured text builder and the  *)
(* text post-processing, as one sequential state machine over a document.  *)
(*                                                                         *)
(* Text is kept run-length encoded: a text is a sequence of runs <<c, n>>  *)
(* (n copies of the character c), so that texts longer than the 20,000     *)
(* character cap can be handled with the program's real constants.         *)
(* Attribute values that the program searches for substrings (class, id,   *)
(* role, src) are sequences of one-character strings.                      *)
(***************************************************************************)
EXTENDS Integers, Sequences, FiniteSets, TLC

(***************************************************************************)
(* Character strings (attribute values)                                    *)
(***************************************************************************)

\* String.prototype.includes
Includes(s, pat) ==
  \E i \in 0..(Len(s) - Len(pat)) : SubSeq(s, i + 1, i + Len(pat)) = pat

UpperCase == <<"A","B","C","D","E","F","G","H","I","J","K","L","M",
               "N","O","P","Q","R","S","T","U","V","W","X","Y","Z">>
LowerCase == <<"a","b","c","d","e","f","g","h","i","j","k","l","m",
               "n","o","p","q","r","s","t","u","v","w","x","y","z">>

LowerChar(c) ==
  IF \E k \in 1..Len(UpperCase) : UpperCase[k] = c
  THEN LowerCase[CHOOSE k \in 1..Len(UpperCase) : UpperCase[k] = c]
  ELSE c

\* String.prototype.toLowerCase
ToLowerCase(s) == [k \in 1..Len(s) |-> LowerChar(s[k])]

\* The space-separated tokens of a class attribute (Element.classList)
RECURSIVE ClassTokensFrom(_, _, _)
ClassTokensFrom(s, k, cur) ==
  IF k > Len(s) THEN (IF cur = <<>> THEN {} ELSE {cur})
  ELSE IF s[k] = " "
       THEN (IF cur = <<>> THEN {} ELSE {cur}) \cup ClassTokensFrom(s, k + 1, <<>>)
       ELSE ClassTokensFrom(s, k + 1, Append(cur, s[k]))

ClassTokens(s) == ClassTokensFrom(s, 1, <<>>)

(***************************************************************************)
(* Run-length encoded text                                                 *)
(***************************************************************************)

IsHSpace(c) == c \in {" ", "\t"}              \* [ \t]
IsSpace(c) == c \in {" ", "\t", "\n"}         \* \s
IsPunct(c) == c \in {",", ".", "!", "?", ";", ":"}   \* [,.!?;:]
IsStop(c) == c \in {".", "!", "?"}            \* [.!?]
IsUpper(c) == \E k \in 1..Len(UpperCase) : UpperCase[k] = c   \* [A-Z]

\* Adjacent runs of one character merged, empty runs dropped
RECURSIVE Norm(_)
Norm(t) ==
  IF t = <<>> THEN <<>>
  ELSE IF t[1][2] = 0 THEN Norm(Tail(t))
  ELSE LET r == Norm(Tail(t)) IN
       IF r # <<>> /\ r[1][1] = t[1][1]
       THEN <<<<t[1][1], t[1][2] + r[1][2]>>>> \o Tail(r)
       ELSE <<t[1]>> \o r

Cat(s, t) == Norm(s \o t)

\* String.prototype.length
RECURSIVE TLen(_)
TLen(t) == IF t = <<>> THEN 0 ELSE t[1][2] + TLen(Tail(t))

\* String.prototype.substring(0, n)
RECURSIVE Substring0(_, _)
Substring0(t, n) ==
  IF t = <<>> \/ n <= 0 THEN <<>>
  ELSE IF t[1][2] >= n THEN <<<<t[1][1], n>>>>
  ELSE <<t[1]>> \o Substring0(Tail(t), n - t[1][2])

RECURSIVE TrimStart(_)
TrimStart(t) ==
  IF t # <<>> /\ IsSpace(t[1][1]) THEN TrimStart(Tail(t)) ELSE t

RECURSIVE TrimEnd(_)
TrimEnd(t) ==
  IF t # <<>> /\ IsSpace(t[Len(t)][1]) THEN TrimEnd(SubSeq(t, 1, Len(t) - 1)) ELSE t

\* String.prototype.trim
Trim(t) == TrimEnd(TrimStart(t))

\* The last index j >= i with t[i..j] all satisfying the class test
RECURSIVE SpaceEnd(_, _)
SpaceEnd(t, i) ==
  IF i < Len(t) /\ IsSpace(t[i + 1][1]) THEN SpaceEnd(t, i + 1) ELSE i

RECURSIVE HSpaceEnd(_, _)
HSpaceEnd(t, i) ==
  IF i < Len(t) /\ IsHSpace(t[i + 1][1]) THEN HSpaceEnd(t, i + 1) ELSE i

\* Number of newline characters in a text
RECURSIVE Newlines(_)
Newlines(t) ==
  IF t = <<>> THEN 0
  ELSE (IF t[1][1] = "\n" THEN t[1][2] ELSE 0) + Newlines(Tail(t))

FirstNewline(t) == CHOOSE k \in 1..Len(t) :
  t[k][1] = "\n" /\ \A m \in 1..(k - 1) : t[m][1] # "\n"
LastNewline(t) == CHOOSE k \in 1..Len(t) :
  t[k][1] = "\n" /\ \A m \in (k + 1)..Len(t) : t[m][1] # "\n"

\* .replace(/\n\s*\n\s*\n+/g, '\n\n') on one maximal whitespace segment: a
\* match runs from the segment's first newline to its last one, and exists
\* when the segment holds at least three newlines
CollapseSegment(seg) ==
  IF Newlines(seg) < 3 THEN seg
  ELSE SubSeq(seg, 1, FirstNewline(seg) - 1) \o <<<<"\n", 2>>>>
       \o SubSeq(seg, LastNewline(seg) + 1, Len(seg))

RECURSIVE CollapseFrom(_, _)
CollapseFrom(t, i) ==
  IF i > Len(t) THEN <<>>
  ELSE IF IsSpace(t[i][1])
       THEN LET j == SpaceEnd(t, i) IN
            CollapseSegment(SubSeq(t, i, j)) \o CollapseFrom(t, j + 1)
       ELSE <<t[i]>> \o CollapseFrom(t, i + 1)

\* .replace(/\n\s*\n\s*\n+/g, '\n\n')
CollapseBlankLines(t) == Norm(CollapseFrom(t, 1))

\* .replace(/[ \t]+/g, ' ')
RECURSIVE SpacesFrom(_, _)
SpacesFrom(t, i) ==
  IF i > Len(t) THEN <<>>
  ELSE IF IsHSpace(t[i][1])
       THEN <<<<" ", 1>>>> \o SpacesFrom(t, HSpaceEnd(t, i) + 1)
       ELSE <<t[i]>> \o SpacesFrom(t, i + 1)

NormalizeSpaces(t) == Norm(SpacesFrom(t, 1))

\* .replace(/\n[ \t]+/g, '\n')
RECURSIVE LeadingFrom(_, _)
LeadingFrom(t, i) ==
  IF i > Len(t) THEN <<>>
  ELSE IF IsHSpace(t[i][1]) /\ i > 1 /\ t[i - 1][1] = "\n"
       THEN LeadingFrom(t, HSpaceEnd(t, i) + 1)
       ELSE <<t[i]>> \o LeadingFrom(t, i + 1)

StripLeadingSpaces(t) == Norm(LeadingFrom(t, 1))

\* .replace(/\s+([,.!?;:])/g, '$1')
RECURSIVE PunctFrom(_, _)
PunctFrom(t, i) ==
  IF i > Len(t) THEN <<>>
  ELSE IF IsSpace(t[i][1])
       THEN LET j == SpaceEnd(t, i) IN
            IF j < Len(t) /\ IsPunct(t[j + 1][1])
            THEN PunctFrom(t, j + 1)
            ELSE SubSeq(t, i, j) \o PunctFrom(t, j + 1)
       ELSE <<t[i]>> \o PunctFrom(t, i + 1)

FixPunctuation(t) == Norm(PunctFrom(t, 1))

\* .replace(/([.!?])\s*\n\s*([A-Z])/g, '$1 $2')
RECURSIVE SentenceFrom(_, _)
SentenceFrom(t, i) ==
  IF i > Len(t) THEN <<>>
  ELSE IF IsSpace(t[i][1])
       THEN LET j == SpaceEnd(t, i) IN
            IF /\ i > 1 /\ IsStop(t[i - 1][1])
               /\ j < Len(t) /\ IsUpper(t[j + 1][1])
               /\ Newlines(SubSeq(t, i, j)) > 0
            THEN <<<<" ", 1>>>> \o SentenceFrom(t, j + 1)
            ELSE SubSeq(t, i, j) \o SentenceFrom(t, j + 1)
       ELSE <<t[i]>> \o SentenceFrom(t, i + 1)

FixSentenceBreaks(t) == Norm(SentenceFrom(t, 1))

MAX_CONTENT_LENGTH == 20000
MIN_CONTENT_LENGTH == 300

\* cleanText without the final substring(0, MAX_CONTENT_LENGTH)
CleanText_NoTruncation(text) ==
  Trim(FixSentenceBreaks(FixPunctuation(StripLeadingSpaces(
    NormalizeSpaces(CollapseBlankLines(text))))))

\* cleanText(text)
CleanText(text) ==
  Substring0(
    Trim(FixSentenceBreaks(FixPunctuation(StripLeadingSpaces(
      NormalizeSpaces(CollapseBlankLines(text)))))),
    MAX_CONTENT_LENGTH)

\* One-character and repeated-character texts
Txt(c, n) == IF n = 0 THEN <<>> ELSE <<<<c, n>>>>

\* The pieces of text.split(/\s+/): the maximal runs of non-whitespace, with
\* an empty piece before a leading and after a trailing separator, and the
\* single piece "" for the empty string
RECURSIVE SplitFrom(_, _, _)
SplitFrom(t, i, cur) ==
  IF i > Len(t) THEN <<cur>>
  ELSE IF IsSpace(t[i][1])
       THEN <<cur>> \o SplitFrom(t, SpaceEnd(t, i) + 1, <<>>)
       ELSE SplitFrom(t, i + 1, Append(cur, t[i]))

SplitSpaces(t) == SplitFrom(t, 1, <<>>)

\* The word count without the filter of empty pieces
WordCountOf_NoFilter(content) == Len(SplitSpaces(content))

\* result.content.split(/\s+/).filter(w => w.length > 0).length
WordCountOf(content) ==
  LET pieces == SplitSpaces(content) IN
  Cardinality({k \in 1..Len(pieces) : TLen(pieces[k]) > 0})

WORDS_PER_MINUTE == 200

\* estimateReadingTime(text): Math.ceil(words / wordsPerMinute), the words
\* being every piece of the trimmed text's split, empty or not
EstimateReadingTime(text) ==
  LET wordCount == Len(SplitSpaces(Trim(text))) IN
  (wordCount + WORDS_PER_MINUTE - 1) \div WORDS_PER_MINUTE

(***************************************************************************)
(* Exact fractions <<numerator, denominator>>, denominator > 0, for the    *)
(* densities and the score (the program computes them in floating point)   *)
(***************************************************************************)

RECURSIVE Gcd(_, _)
Gcd(a, b) == IF b = 0 THEN a ELSE Gcd(b, a % b)

Abs(a) == IF a < 0 THEN -a ELSE a

Frac(n, d) ==
  LET g == Gcd(Abs(n), d) IN
  IF g = 0 THEN <<0, 1>> ELSE <<n \div g, d \div g>>

FAdd(a, b) == Frac(a[1] * b[2] + b[1] * a[2], a[2] * b[2])
FSub(a, b) == Frac(a[1] * b[2] - b[1] * a[2], a[2] * b[2])
FMul(a, b) == Frac(a[1] * b[1], a[2] * b[2])
FInt(n) == <<n, 1>>
FLess(a, b) == a[1] * b[2] < b[1] * a[2]

(***************************************************************************)
(* The document: elements in document order, each with its parent's index  *)
(* (0: a child of body) and its own text as its first child node           *)
(***************************************************************************)

Elem == [tag |-> "div", cls |-> <<>>, id |-> <<>>, role |-> <<>>,
         ariaHidden |-> "", hide |-> "no", itemtype |-> <<>>,
         dataAd |-> FALSE, text |-> <<>>, parent |-> 0,
         rel |-> "", itemprop |-> "", datetime |-> <<>>,
         src |-> <<>>, width |-> 0, height |-> 0, dataScore |-> -1]

RECURSIVE IsAncestor(_, _, _)
\* whether element a is a proper ancestor of element j
IsAncestor(nodes, a, j) ==
  IF j = 0 \/ nodes[j].parent = 0 THEN FALSE
  ELSE nodes[j].parent = a \/ IsAncestor(nodes, a, nodes[j].parent)

\* The descendants of element i (of body for i = 0), in document order
Descendants(nodes, i) ==
  IF i = 0 THEN [k \in 1..Len(nodes) |-> k]
  ELSE LET last == CHOOSE m \in i..Len(nodes) :
                     /\ \A j \in (i + 1)..m : IsAncestor(nodes, i, j)
                     /\ (m < Len(nodes) => ~IsAncestor(nodes, i, m + 1))
       IN [k \in 1..(last - i) |-> i + k]

RECURSIVE ConcatText(_, _)
\* The texts of the listed elements, concatenated
ConcatText(nodes, idx) ==
  IF idx = <<>> THEN <<>>
  ELSE nodes[idx[1]].text \o ConcatText(nodes, Tail(idx))

\* Node.textContent
TextContent(nodes, i) ==
  Norm((IF i = 0 THEN <<>> ELSE nodes[i].text)
        \o ConcatText(nodes, Descendants(nodes, i)))

\* element.querySelectorAll(tags).length
CountTags(nodes, i, tags) ==
  LET Is(j) == nodes[j].tag \in tags IN
  Len(SelectSeq(Descendants(nodes, i), Is))

\* The children of element i (of body for i = 0), in document order
Children(nodes, i) ==
  LET IsKid(j) == nodes[j].parent = i IN
  SelectSeq([k \in 1..Len(nodes) |-> k], IsKid)

DisplayNone(e) ==
  e.hide \in {"inlineDisplay", "cssDisplay"} \/ e.tag \in {"script", "style", "noscript"}
VisibilityHidden(e) == e.hide \in {"inlineVisibility", "cssVisibility"}

RECURSIVE InheritsHidden(_, _)
\* visibility is inherited: hidden on the element or on an ancestor
InheritsHidden(nodes, i) ==
  i # 0 /\ (VisibilityHidden(nodes[i]) \/ InheritsHidden(nodes, nodes[i].parent))

\* Tags laid out inline; every other tag is a block, and a paragraph is set
\* off by a blank line (HTMLElement.innerText's required line breaks)
InlineTags == {"a", "span", "b", "code", "img", "button", "input", "svg"}
BlockBreaks(tag) == IF tag \in InlineTags THEN 0 ELSE IF tag = "p" THEN 2 ELSE 1

RECURSIVE InnerItems(_, _)
RECURSIVE InnerItemsOf(_, _)
\* The rendered text pieces <<"t", text>> and required line breaks <<"b", n>>
\* of element i, in document order
InnerItems(nodes, i) ==
  IF DisplayNone(nodes[i]) \/ VisibilityHidden(nodes[i]) THEN <<>>
  ELSE LET b == BlockBreaks(nodes[i].tag)
           brk == IF b = 0 THEN <<>> ELSE << <<"b", b>> >>
       IN brk \o << <<"t", nodes[i].text>> >>
              \o InnerItemsOf(nodes, Children(nodes, i)) \o brk
InnerItemsOf(nodes, kids) ==
  IF kids = <<>> THEN <<>>
  ELSE InnerItems(nodes, kids[1]) \o InnerItemsOf(nodes, Tail(kids))

\* white-space: normal on one line: runs of white space become one space
RECURSIVE CollapseSpaceFrom(_, _)
CollapseSpaceFrom(t, i) ==
  IF i > Len(t) THEN <<>>
  ELSE IF IsSpace(t[i][1])
       THEN <<<<" ", 1>>>> \o CollapseSpaceFrom(t, SpaceEnd(t, i) + 1)
       ELSE <<t[i]>> \o CollapseSpaceFrom(t, i + 1)

LineText(t) == Trim(Norm(CollapseSpaceFrom(Norm(t), 1)))

Max(a, b) == IF a > b THEN a ELSE b

RECURSIVE LayOut(_, _, _, _, _)
\* The lines of rendered text joined by the largest required line break
\* between them; empty lines and leading and trailing breaks are dropped
LayOut(items, k, out, pend, cur) ==
  LET line == LineText(cur)
      flushed == IF line = <<>> THEN out
                 ELSE IF out = <<>> THEN line
                 ELSE out \o Txt("\n", pend) \o line
  IN IF k > Len(items) THEN Norm(flushed)
     ELSE IF items[k][1] = "t"
          THEN LayOut(items, k + 1, out, pend, cur \o items[k][2])
          ELSE LayOut(items, k + 1, flushed,
                      IF line = <<>> THEN Max(pend, items[k][2]) ELSE items[k][2],
                      <<>>)

\* Whether the element generates no box: display none on it or an ancestor
NotRendered(nodes, i) ==
  i # 0 /\ (DisplayNone(nodes[i])
            \/ \E a \in 1..Len(nodes) : IsAncestor(nodes, a, i) /\ DisplayNone(nodes[a]))

\* HTMLElement.innerText of an element of the live document: the rendered
\* text, or textContent for an element that is not being rendered
InnerText(nodes, i) ==
  IF NotRendered(nodes, i) THEN TextContent(nodes, i)
  ELSE LayOut(IF i = 0 THEN InnerItemsOf(nodes, Children(nodes, 0))
              ELSE InnerItems(nodes, i), 1, <<>>, 0, <<>>)

(***************************************************************************)
(* Noise classification                                                    *)
(***************************************************************************)

noisePatterns == <<
  <<"n","a","v">>,
  <<"n","a","v","i","g","a","t","i","o","n">>,
  <<"n","a","v","b","a","r">>,
  <<"m","e","n","u">>,
  <<"s","i","d","e","b","a","r">>,
  <<"s","i","d","e","-","b","a","r">>,
  <<"h","e","a","d","e","r">>,
  <<"f","o","o","t","e","r">>,
  <<"b","r","e","a","d","c","r","u","m","b">>,
  <<"m","e","t","a">>,
  <<"b","y","l","i","n","e">>,
  <<"a","d">>,
  <<"a","d","s">>,
  <<"a","d","v","e","r","t","i","s","e","m","e","n","t">>,
  <<"p","r","o","m","o">>,
  <<"p","r","o","m","o","t","i","o","n">>,
  <<"s","p","o","n","s","o","r">>,
  <<"s","o","c","i","a","l">>,
  <<"s","h","a","r","e">>,
  <<"s","h","a","r","i","n","g">>,
  <<"f","o","l","l","o","w">>,
  <<"c","o","m","m","e","n","t">>,
  <<"d","i","s","c","u","s","s","i","o","n">>,
  <<"r","e","l","a","t","e","d">>,
  <<"r","e","c","o","m","m","e","n","d">>,
  <<"s","u","g","g","e","s","t","i","o","n">>,
  <<"p","o","p","u","p">>,
  <<"m","o","d","a","l">>,
  <<"o","v","e","r","l","a","y">>,
  <<"t","o","o","l","t","i","p">>,
  <<"d","r","o","p","d","o","w","n">>,
  <<"n","e","w","s","l","e","t","t","e","r">>,
  <<"s","u","b","s","c","r","i","b","e">>,
  <<"s","u","b","s","c","r","i","p","t","i","o","n">>,
  <<"s","i","g","n","u","p">>,
  <<"w","i","d","g","e","t">>,
  <<"p","l","u","g","i","n">>,
  <<"b","a","n","n","e","r">>
>>

\* window.getComputedStyle(element): display none or visibility hidden
ComputedHidden(nodes, i) ==
  DisplayNone(nodes[i]) \/ InheritsHidden(nodes, i)

\* isNoiseElement(element)
isNoiseElement(nodes, i) ==
  LET className == ToLowerCase(nodes[i].cls)
      id == ToLowerCase(nodes[i].id)
      role == ToLowerCase(nodes[i].role)
      hasNoisePattern ==
        \E k \in 1..Len(noisePatterns) :
          \/ Includes(className, noisePatterns[k])
          \/ Includes(id, noisePatterns[k])
          \/ Includes(role, noisePatterns[k])
  IN \/ hasNoisePattern
     \/ nodes[i].ariaHidden = "true"
     \/ role \in {<<"n","a","v","i","g","a","t","i","o","n">>, <<"b","a","n","n","e","r">>, <<"c","o","m","p","l","e","m","e","n","t","a","r","y">>}
     \/ ComputedHidden(nodes, i)

(***************************************************************************)
(* Selectors                                                               *)
(***************************************************************************)

\* A compound selector (type, class, id, role and itemtype tests, each
\* optional) with an optional ancestor selector (descendant combinator)
MatchesSimple(e, sel) ==
  /\ sel.tag = "" \/ e.tag = sel.tag
  /\ sel.cls = <<>> \/ sel.cls \in ClassTokens(e.cls)
  /\ sel.id = <<>> \/ e.id = sel.id
  /\ sel.role = <<>> \/ e.role = sel.role
  /\ sel.itemSub = <<>> \/ Includes(e.itemtype, sel.itemSub)

\* element.matches(selector)
Matches(nodes, i, sel) ==
  /\ MatchesSimple(nodes[i], sel)
  /\ sel.anc = <<>>
     \/ \E a \in 1..Len(nodes) :
          IsAncestor(nodes, a, i) /\ MatchesSimple(nodes[a], sel.anc[1])

\* document.querySelector(selector): the first match in document order, 0
\* for null
QuerySelector(nodes, sel) ==
  IF \E i \in 1..Len(nodes) : Matches(nodes, i, sel)
  THEN CHOOSE i \in 1..Len(nodes) :
         Matches(nodes, i, sel) /\ \A j \in 1..(i - 1) : ~Matches(nodes, j, sel)
  ELSE 0

mainSelectors == <<
  \* article[role="article"]
  [tag |-> "article", cls |-> <<>>, id |-> <<>>, role |-> <<"a","r","t","i","c","l","e">>, itemSub |-> <<>>, anc |-> <<>>],
  \* article.article
  [tag |-> "article", cls |-> <<"a","r","t","i","c","l","e">>, id |-> <<>>, role |-> <<>>, itemSub |-> <<>>, anc |-> <<>>],
  \* article.post
  [tag |-> "article", cls |-> <<"p","o","s","t">>, id |-> <<>>, role |-> <<>>, itemSub |-> <<>>, anc |-> <<>>],
  \* [role="article"]
  [tag |-> "", cls |-> <<>>, id |-> <<>>, role |-> <<"a","r","t","i","c","l","e">>, itemSub |-> <<>>, anc |-> <<>>],
  \* [role="main"] article
  [tag |-> "article", cls |-> <<>>, id |-> <<>>, role |-> <<>>, itemSub |-> <<>>, anc |-> <<[tag |-> "", cls |-> <<>>, id |-> <<>>, role |-> <<"m","a","i","n">>, itemSub |-> <<>>, anc |-> <<>>]>>],
  \* main article
  [tag |-> "article", cls |-> <<>>, id |-> <<>>, role |-> <<>>, itemSub |-> <<>>, anc |-> <<[tag |-> "main", cls |-> <<>>, id |-> <<>>, role |-> <<>>, itemSub |-> <<>>, anc |-> <<>>]>>],
  \* [itemtype*="Article"]
  [tag |-> "", cls |-> <<>>, id |-> <<>>, role |-> <<>>, itemSub |-> <<"A","r","t","i","c","l","e">>, anc |-> <<>>],
  \* .article-content
  [tag |-> "", cls |-> <<"a","r","t","i","c","l","e","-","c","o","n","t","e","n","t">>, id |-> <<>>, role |-> <<>>, itemSub |-> <<>>, anc |-> <<>>],
  \* .post-content
  [tag |-> "", cls |-> <<"p","o","s","t","-","c","o","n","t","e","n","t">>, id |-> <<>>, role |-> <<>>, itemSub |-> <<>>, anc |-> <<>>],
  \* .entry-content
  [tag |-> "", cls |-> <<"e","n","t","r","y","-","c","o","n","t","e","n","t">>, id |-> <<>>, role |-> <<>>, itemSub |-> <<>>, anc |-> <<>>],
  \* .article-body
  [tag |-> "", cls |-> <<"a","r","t","i","c","l","e","-","b","o","d","y">>, id |-> <<>>, role |-> <<>>, itemSub |-> <<>>, anc |-> <<>>],
  \* .post-body
  [tag |-> "", cls |-> <<"p","o","s","t","-","b","o","d","y">>, id |-> <<>>, role |-> <<>>, itemSub |-> <<>>, anc |-> <<>>],
  \* .content-body
  [tag |-> "", cls |-> <<"c","o","n","t","e","n","t","-","b","o","d","y">>, id |-> <<>>, role |-> <<>>, itemSub |-> <<>>, anc |-> <<>>],
  \* article
  [tag |-> "article", cls |-> <<>>, id |-> <<>>, role |-> <<>>, itemSub |-> <<>>, anc |-> <<>>],
  \* main
  [tag |-> "main", cls |-> <<>>, id |-> <<>>, role |-> <<>>, itemSub |-> <<>>, anc |-> <<>>],
  \* [role="main"]
  [tag |-> "", cls |-> <<>>, id |-> <<>>, role |-> <<"m","a","i","n">>, itemSub |-> <<>>, anc |-> <<>>],
  \* .main-content
  [tag |-> "", cls |-> <<"m","a","i","n","-","c","o","n","t","e","n","t">>, id |-> <<>>, role |-> <<>>, itemSub |-> <<>>, anc |-> <<>>],
  \* #article
  [tag |-> "", cls |-> <<>>, id |-> <<"a","r","t","i","c","l","e">>, role |-> <<>>, itemSub |-> <<>>, anc |-> <<>>],
  \* #post
  [tag |-> "", cls |-> <<>>, id |-> <<"p","o","s","t">>, role |-> <<>>, itemSub |-> <<>>, anc |-> <<>>],
  \* #content article
  [tag |-> "article", cls |-> <<>>, id |-> <<>>, role |-> <<>>, itemSub |-> <<>>, anc |-> <<[tag |-> "", cls |-> <<>>, id |-> <<"c","o","n","t","e","n","t">>, role |-> <<>>, itemSub |-> <<>>, anc |-> <<>>]>>],
  \* .markdown-body
  [tag |-> "", cls |-> <<"m","a","r","k","d","o","w","n","-","b","o","d","y">>, id |-> <<>>, role |-> <<>>, itemSub |-> <<>>, anc |-> <<>>],
  \* .wiki-content
  [tag |-> "", cls |-> <<"w","i","k","i","-","c","o","n","t","e","n","t">>, id |-> <<>>, role |-> <<>>, itemSub |-> <<>>, anc |-> <<>>],
  \* .mw-parser-output
  [tag |-> "", cls |-> <<"m","w","-","p","a","r","s","e","r","-","o","u","t","p","u","t">>, id |-> <<>>, role |-> <<>>, itemSub |-> <<>>, anc |-> <<>>]
>>

(***************************************************************************)
(* Content locator                                                         *)
(***************************************************************************)

MAX_LINK_DENSITY == <<1, 2>>       \* 0.5
MIN_CONTENT_DENSITY == <<3, 10>>   \* 0.3

RECURSIVE SumTextLength(_, _)
SumTextLength(nodes, idx) ==
  IF idx = <<>> THEN 0
  ELSE TLen(TextContent(nodes, idx[1])) + SumTextLength(nodes, Tail(idx))

\* element.querySelectorAll('a')
Anchors(nodes, i) ==
  LET IsA(j) == nodes[j].tag = "a" IN SelectSeq(Descendants(nodes, i), IsA)

\* calculateLinkDensity with 0 for an element without text
calculateLinkDensity_ZeroWhenEmpty(nodes, i) ==
  LET textLength == TLen(TextContent(nodes, i)) IN
  IF textLength = 0 THEN FInt(0)
  ELSE Frac(SumTextLength(nodes, Anchors(nodes, i)), textLength)

\* calculateLinkDensity(element)
calculateLinkDensity(nodes, i) ==
  LET textLength == TLen(TextContent(nodes, i)) IN
  IF textLength = 0 THEN FInt(1)
  ELSE Frac(SumTextLength(nodes, Anchors(nodes, i)), textLength)

\* calculateContentDensity(element)
calculateContentDensity(nodes, i) ==
  LET text == Trim(TextContent(nodes, i)) IN
  IF text = <<>> THEN FInt(0)
  ELSE LET paragraphs == CountTags(nodes, i, {"p"})
           textLength == TLen(text)
           structuralElements ==
             CountTags(nodes, i, {"div", "span", "table", "ul", "ol"})
       IN Frac(paragraphs * 100 + textLength, structuralElements + 1)

\* The quality gates of strategy 1
PassesSemanticGates(nodes, el) ==
  /\ TLen(InnerText(nodes, el)) > MIN_CONTENT_LENGTH
  /\ FLess(calculateLinkDensity(nodes, el), MAX_LINK_DENSITY)
  /\ FLess(MIN_CONTENT_DENSITY, calculateContentDensity(nodes, el))

RECURSIVE SemanticFrom_NoBreak(_, _)
\* Strategy 1 without the break: a later selector's qualifying match replaces
\* an earlier one's
SemanticFrom_NoBreak(nodes, k) ==
  IF k > Len(mainSelectors) THEN 0
  ELSE LET el == QuerySelector(nodes, mainSelectors[k])
           later == SemanticFrom_NoBreak(nodes, k + 1)
       IN IF later # 0 THEN later
          ELSE IF el # 0 /\ ~isNoiseElement(nodes, el) /\ PassesSemanticGates(nodes, el)
               THEN el
               ELSE 0

RECURSIVE SemanticFrom(_, _)
\* Strategy 1: for each selector in turn its first match, accepted when it is
\* no noise and passes the gates; 0 when no selector yields one
SemanticFrom(nodes, k) ==
  IF k > Len(mainSelectors) THEN 0
  ELSE LET el == QuerySelector(nodes, mainSelectors[k]) IN
       IF el # 0 /\ ~isNoiseElement(nodes, el) /\ PassesSemanticGates(nodes, el)
       THEN el
       ELSE SemanticFrom(nodes, k + 1)

\* document.querySelectorAll('div, section, main, article, [role="main"]')
Containers(nodes) ==
  LET Is(j) == \/ nodes[j].tag \in {"div", "section", "main", "article"}
               \/ nodes[j].role = <<"m","a","i","n">>
  IN SelectSeq([k \in 1..Len(nodes) |-> k], Is)

\* Whether strategy 2 scores the container (it skips noise, short text, high
\* link density and low content density)
Scored(nodes, c) ==
  /\ ~isNoiseElement(nodes, c)
  /\ ~(TLen(InnerText(nodes, c)) < MIN_CONTENT_LENGTH)
  /\ ~FLess(MAX_LINK_DENSITY, calculateLinkDensity(nodes, c))
  /\ ~FLess(calculateContentDensity(nodes, c), MIN_CONTENT_DENSITY)

\* The comprehensive score of strategy 2
Score(nodes, c) ==
  LET paragraphs == CountTags(nodes, c, {"p"})
      headings == CountTags(nodes, c, {"h1", "h2", "h3", "h4", "h5", "h6"})
      lists == CountTags(nodes, c, {"ul", "ol"})
      links == Len(Anchors(nodes, c))
      textLength == TLen(InnerText(nodes, c))
  IN FSub(FSub(FAdd(FAdd(FInt(paragraphs * 100 + headings * 50 + lists * 30),
                         FMul(FInt(textLength), <<1, 2>>)),
                    FMul(calculateContentDensity(nodes, c), FInt(10))),
               FMul(calculateLinkDensity(nodes, c), FInt(500))),
          FInt(links * 5))

RECURSIVE ScoringFrom_StaleBest(_, _, _, _)
\* Strategy 2 without the update of bestScore: every container that beats the
\* initial score replaces the element kept so far
ScoringFrom_StaleBest(nodes, cs, mainElement, bestScore) ==
  IF cs = <<>> THEN mainElement
  ELSE IF Scored(nodes, cs[1]) /\ FLess(bestScore, Score(nodes, cs[1]))
       THEN ScoringFrom_StaleBest(nodes, Tail(cs), cs[1], bestScore)
       ELSE ScoringFrom_StaleBest(nodes, Tail(cs), mainElement, bestScore)

RECURSIVE ScoringFrom(_, _, _, _)
\* Strategy 2: containers.forEach, keeping the first container whose score
\* exceeds the best so far (initially 0)
ScoringFrom(nodes, cs, mainElement, bestScore) ==
  IF cs = <<>> THEN mainElement
  ELSE IF Scored(nodes, cs[1]) /\ FLess(bestScore, Score(nodes, cs[1]))
       THEN ScoringFrom(nodes, Tail(cs), cs[1], Score(nodes, cs[1]))
       ELSE ScoringFrom(nodes, Tail(cs), mainElement, bestScore)

\* findMainContent() with strategy 2 going through the containers from the
\* last to the first
findMainContent_LastFirst(nodes) ==
  LET semantic == SemanticFrom(nodes, 1)
      cs == Containers(nodes)
  IN IF semantic # 0 THEN semantic
     ELSE ScoringFrom(nodes, [k \in 1..Len(cs) |-> cs[Len(cs) + 1 - k]], 0, FInt(0))

\* findMainContent(): the chosen element, 0 for null
findMainContent(nodes) ==
  LET semantic == SemanticFrom(nodes, 1) IN
  IF semantic # 0 THEN semantic
  ELSE ScoringFrom(nodes, Containers(nodes), 0, FInt(0))

(***************************************************************************)
(* Noise filter and structured text builder                                *)
(***************************************************************************)

\* The kept elements (in document order) as a tree of their own
Reindex(nodes, keep) ==
  LET Rank(j) == IF j = 0 THEN 0 ELSE CHOOSE k \in 1..Len(keep) : keep[k] = j IN
  [k \in 1..Len(keep) |-> [nodes[keep[k]] EXCEPT !.parent = Rank(@)]]

\* element.cloneNode(true): the element and its descendants, detached
CloneNode(nodes, i) ==
  LET keep == <<i>> \o Descendants(nodes, i)
      sub == [k \in 1..Len(nodes) |->
                IF k = i THEN [nodes[k] EXCEPT !.parent = 0] ELSE nodes[k]]
  IN Reindex(sub, keep)

removeSelectors == <<
  [kind |-> "tag", val |-> "script"],
  [kind |-> "tag", val |-> "style"],
  [kind |-> "tag", val |-> "noscript"],
  [kind |-> "tag", val |-> "iframe"],
  [kind |-> "tag", val |-> "object"],
  [kind |-> "tag", val |-> "embed"],
  [kind |-> "tag", val |-> "svg"],
  [kind |-> "tag", val |-> "nav"],
  [kind |-> "tag", val |-> "header"],
  [kind |-> "tag", val |-> "footer"],
  [kind |-> "tag", val |-> "aside"],
  [kind |-> "tag", val |-> "button"],
  [kind |-> "tag", val |-> "form"],
  [kind |-> "tag", val |-> "input"],
  [kind |-> "tag", val |-> "select"],
  [kind |-> "tag", val |-> "textarea"],
  [kind |-> "class", val |-> <<"a","d">>],
  [kind |-> "class", val |-> <<"a","d","s">>],
  [kind |-> "class", val |-> <<"a","d","v","e","r","t","i","s","e","m","e","n","t">>],
  [kind |-> "class", val |-> <<"a","d","s","b","y","g","o","o","g","l","e">>],
  [kind |-> "classSub", val |-> <<"a","d","-">>],
  [kind |-> "idSub", val |-> <<"a","d","-">>],
  [kind |-> "classSub", val |-> <<"a","d","v","e","r","t">>],
  [kind |-> "class", val |-> <<"s","p","o","n","s","o","r","e","d">>],
  [kind |-> "class", val |-> <<"s","p","o","n","s","o","r">>],
  [kind |-> "dataAd", val |-> <<>>],
  [kind |-> "class", val |-> <<"s","i","d","e","b","a","r">>],
  [kind |-> "class", val |-> <<"w","i","d","g","e","t">>],
  [kind |-> "class", val |-> <<"m","e","n","u">>],
  [kind |-> "class", val |-> <<"n","a","v","i","g","a","t","i","o","n">>],
  [kind |-> "class", val |-> <<"n","a","v">>],
  [kind |-> "class", val |-> <<"n","a","v","b","a","r">>],
  [kind |-> "classSub", val |-> <<"s","i","d","e","b","a","r">>],
  [kind |-> "idSub", val |-> <<"s","i","d","e","b","a","r">>],
  [kind |-> "class", val |-> <<"c","o","m","m","e","n","t","s">>],
  [kind |-> "class", val |-> <<"c","o","m","m","e","n","t","-","s","e","c","t","i","o","n">>],
  [kind |-> "class", val |-> <<"c","o","m","m","e","n","t","-","l","i","s","t">>],
  [kind |-> "class", val |-> <<"c","o","m","m","e","n","t","-","f","o","r","m">>],
  [kind |-> "idSub", val |-> <<"c","o","m","m","e","n","t">>],
  [kind |-> "classSub", val |-> <<"c","o","m","m","e","n","t">>],
  [kind |-> "idSub", val |-> <<"d","i","s","q","u","s">>],
  [kind |-> "class", val |-> <<"s","o","c","i","a","l">>],
  [kind |-> "class", val |-> <<"s","h","a","r","e">>],
  [kind |-> "class", val |-> <<"s","h","a","r","i","n","g">>],
  [kind |-> "class", val |-> <<"s","o","c","i","a","l","-","s","h","a","r","e">>],
  [kind |-> "classSub", val |-> <<"s","o","c","i","a","l">>],
  [kind |-> "classSub", val |-> <<"s","h","a","r","e">>],
  [kind |-> "class", val |-> <<"r","e","l","a","t","e","d">>],
  [kind |-> "class", val |-> <<"r","e","c","o","m","m","e","n","d","e","d">>],
  [kind |-> "class", val |-> <<"m","o","r","e","-","p","o","s","t","s">>],
  [kind |-> "class", val |-> <<"r","e","l","a","t","e","d","-","p","o","s","t","s">>],
  [kind |-> "class", val |-> <<"s","u","g","g","e","s","t","i","o","n","s">>],
  [kind |-> "classSub", val |-> <<"r","e","l","a","t","e","d">>],
  [kind |-> "classSub", val |-> <<"r","e","c","o","m","m","e","n","d">>],
  [kind |-> "class", val |-> <<"p","o","p","u","p">>],
  [kind |-> "class", val |-> <<"m","o","d","a","l">>],
  [kind |-> "class", val |-> <<"o","v","e","r","l","a","y">>],
  [kind |-> "class", val |-> <<"l","i","g","h","t","b","o","x">>],
  [kind |-> "classSub", val |-> <<"p","o","p","u","p">>],
  [kind |-> "classSub", val |-> <<"m","o","d","a","l">>],
  [kind |-> "ariaHidden", val |-> <<>>],
  [kind |-> "style", val |-> "inlineDisplay"],
  [kind |-> "style", val |-> "inlineVisibility"],
  [kind |-> "class", val |-> <<"n","e","w","s","l","e","t","t","e","r">>],
  [kind |-> "class", val |-> <<"s","u","b","s","c","r","i","p","t","i","o","n">>],
  [kind |-> "class", val |-> <<"s","u","b","s","c","r","i","b","e">>],
  [kind |-> "class", val |-> <<"s","i","g","n","u","p">>],
  [kind |-> "classSub", val |-> <<"n","e","w","s","l","e","t","t","e","r">>],
  [kind |-> "classSub", val |-> <<"s","u","b","s","c","r","i">>],
  [kind |-> "class", val |-> <<"b","r","e","a","d","c","r","u","m","b">>],
  [kind |-> "class", val |-> <<"b","r","e","a","d","c","r","u","m","b","s">>],
  [kind |-> "class", val |-> <<"m","e","t","a">>],
  [kind |-> "class", val |-> <<"p","o","s","t","-","m","e","t","a">>],
  [kind |-> "class", val |-> <<"a","r","t","i","c","l","e","-","m","e","t","a">>],
  [kind |-> "class", val |-> <<"a","u","t","h","o","r","-","b","i","o">>],
  [kind |-> "class", val |-> <<"a","b","o","u","t","-","a","u","t","h","o","r">>],
  [kind |-> "class", val |-> <<"t","a","g","s">>],
  [kind |-> "class", val |-> <<"c","a","t","e","g","o","r","i","e","s">>],
  [kind |-> "classSub", val |-> <<"t","a","g","-">>],
  [kind |-> "class", val |-> <<"v","i","d","e","o","-","p","l","a","y","e","r">>],
  [kind |-> "classSub", val |-> <<"v","i","d","e","o","-","j","s">>],
  [kind |-> "tag", val |-> "figcaption"],
  [kind |-> "class", val |-> <<"c","a","p","t","i","o","n">>],
  [kind |-> "class", val |-> <<"c","r","e","d","i","t">>]
>>

\* The removal list without its [aria-hidden="true"] entry
MatchesRemove_KeepsAriaHidden(e, sel) ==
  CASE sel.kind = "tag" -> e.tag = sel.val
    [] sel.kind = "class" -> sel.val \in ClassTokens(e.cls)
    [] sel.kind = "classSub" -> Includes(e.cls, sel.val)
    [] sel.kind = "idSub" -> Includes(e.id, sel.val)
    [] sel.kind = "dataAd" -> e.dataAd
    [] sel.kind = "ariaHidden" -> FALSE
    [] sel.kind = "style" -> e.hide = sel.val

\* element.matches(selector) for a selector of the removal list; the style
\* attribute is matched through the element's inline declaration
MatchesRemove(e, sel) ==
  CASE sel.kind = "tag" -> e.tag = sel.val
    [] sel.kind = "class" -> sel.val \in ClassTokens(e.cls)
    [] sel.kind = "classSub" -> Includes(e.cls, sel.val)
    [] sel.kind = "idSub" -> Includes(e.id, sel.val)
    [] sel.kind = "dataAd" -> e.dataAd
    [] sel.kind = "ariaHidden" -> e.ariaHidden = "true"
    [] sel.kind = "style" -> e.hide = sel.val

\* removeSelectors.forEach(selector =>
\*   clone.querySelectorAll(selector).forEach(el => el.remove())):
\* every selector tests the element alone, so the passes together remove the
\* descendants of the root that match some selector, each with its subtree
Removed(clone, j) ==
  j > 1 /\ \E k \in 1..Len(removeSelectors) : MatchesRemove(clone[j], removeSelectors[k])

RemoveNoise(clone) ==
  LET Kept(j) == /\ ~Removed(clone, j)
                 /\ \A a \in 1..Len(clone) : IsAncestor(clone, a, j) => ~Removed(clone, a)
  IN Reindex(clone, SelectSeq([k \in 1..Len(clone) |-> k], Kept))

\* The clone without the removal pass
FilteredClone_Unfiltered(nodes, i) == CloneNode(nodes, i)

\* The clone after the removal pass
FilteredClone(nodes, i) == RemoveNoise(CloneNode(nodes, i))

ContentTags == {"p", "h1", "h2", "h3", "h4", "h5", "h6", "li", "blockquote", "pre", "code"}
MIN_BLOCK_LENGTH == 10

\* The elements the TreeWalker returns: the root's descendants with a
\* content-bearing tag, in document order
Walked(clone) ==
  LET Accept(j) == j > 1 /\ clone[j].tag \in ContentTags IN
  SelectSeq([k \in 1..Len(clone) |-> k], Accept)

\* The bullet (U+2022) and the backquote, as characters of a text
BULLET == "*"
BACKQUOTE == "bq"

\* The text pushed for an accepted element
FormatBlock(tag, cleanDirectText) ==
  IF tag \in {"h1", "h2", "h3", "h4", "h5", "h6"}
  THEN Txt("\n", 1) \o Txt("#", 2) \o Txt(" ", 1) \o cleanDirectText \o Txt("\n", 1)
  ELSE IF tag = "li" THEN Txt(BULLET, 1) \o Txt(" ", 1) \o cleanDirectText
  ELSE IF tag = "blockquote" THEN Txt(">", 1) \o Txt(" ", 1) \o cleanDirectText
  ELSE IF tag \in {"pre", "code"}
  THEN Txt(BACKQUOTE, 3) \o Txt("\n", 1) \o cleanDirectText \o Txt("\n", 1) \o Txt(BACKQUOTE, 3)
  ELSE cleanDirectText

\* Whether the walk pushes a block for the element: its text content and
\* its direct text are long enough and no child was processed before it
Accepted(clone, j, processed) ==
  LET text == Trim(TextContent(clone, j))
      hasTextInChild == \E c \in processed : clone[c].parent = j
  IN /\ ~(text = <<>> \/ TLen(text) < MIN_BLOCK_LENGTH)
     /\ ~hasTextInChild
     /\ TLen(Trim(clone[j].text)) > MIN_BLOCK_LENGTH

RECURSIVE WalkFrom(_, _, _, _)
\* while (currentNode = walker.nextNode()): the parts pushed, in order
WalkFrom(clone, todo, processed, parts) ==
  IF todo = <<>> THEN parts
  ELSE LET j == todo[1] IN
       IF j \notin processed /\ Accepted(clone, j, processed)
       THEN WalkFrom(clone, Tail(todo), processed \cup {j},
                     Append(parts, Norm(FormatBlock(clone[j].tag, Trim(clone[j].text)))))
       ELSE WalkFrom(clone, Tail(todo), processed, parts)

\* The parts of the structured walk over a filtered clone
Parts(clone) == WalkFrom(clone, Walked(clone), {}, <<>>)

RECURSIVE Join(_, _)
\* parts.join(sep)
Join(parts, sep) ==
  IF parts = <<>> THEN <<>>
  ELSE IF Len(parts) = 1 THEN parts[1]
  ELSE parts[1] \o sep \o Join(Tail(parts), sep)

\* extractStructuredText(element) on the filtered clone: the parts joined
\* by blank lines, or the clone's flattened text when there are none (the
\* clone is detached, so its innerText is its textContent)
StructuredText(clone) ==
  IF Parts(clone) = <<>> THEN TextContent(clone, 1)
  ELSE Norm(Join(Parts(clone), Txt("\n", 2)))

(***************************************************************************)
(* Metadata resolver                                                       *)
(***************************************************************************)

\* a || b on strings: the first non-empty one
Or(a, b) == IF a # <<>> THEN a ELSE b

\* A JSON-LD item: an object with the fields the resolver reads
Item == [kind |-> "object", type |-> "", headline |-> <<>>,
         author |-> [kind |-> "none", name |-> <<>>],
         datePublished |-> <<>>, dateModified |-> <<>>, description |-> <<>>,
         image |-> [kind |-> "none", url |-> <<>>]]
NullItem == [kind |-> "null"]

ArticleTypes == {"Article", "NewsArticle", "BlogPosting", "ScholarlyArticle"}

RECURSIVE FirstArticle_AnyType(_, _)
\* The walk of a script block without the test of the item's type
FirstArticle_AnyType(items, k) ==
  IF k > Len(items) THEN NullItem
  ELSE IF items[k].kind = "null" THEN NullItem
  ELSE IF items[k].type # "" THEN items[k]
  ELSE FirstArticle_AnyType(items, k + 1)

RECURSIVE FirstArticle(_, _)
\* for (const item of items): the first item of an article type; reading a
\* field of a null item throws, which ends the walk of this script block
FirstArticle(items, k) ==
  IF k > Len(items) THEN NullItem
  ELSE IF items[k].kind = "null" THEN NullItem
  ELSE IF items[k].type # "" /\ items[k].type \in ArticleTypes THEN items[k]
  ELSE FirstArticle(items, k + 1)

RECURSIVE StructuredFrom_AbortOnError(_, _)
\* The walk of the script blocks with a single try around the loop: a block
\* that does not parse ends it
StructuredFrom_AbortOnError(scripts, k) ==
  IF k > Len(scripts) THEN NullItem
  ELSE IF ~scripts[k].ok THEN NullItem
  ELSE LET item == FirstArticle(scripts[k].items, 1) IN
       IF item.kind # "null" THEN item
       ELSE StructuredFrom_AbortOnError(scripts, k + 1)

RECURSIVE StructuredFrom(_, _)
\* for (const script of scripts): a block that does not parse is skipped
StructuredFrom(scripts, k) ==
  IF k > Len(scripts) THEN NullItem
  ELSE IF ~scripts[k].ok THEN StructuredFrom(scripts, k + 1)
  ELSE LET item == FirstArticle(scripts[k].items, 1) IN
       IF item.kind # "null" THEN item ELSE StructuredFrom(scripts, k + 1)

\* extractStructuredData()
extractStructuredData(d) == StructuredFrom(d.jsonld, 1)

\* An object where the program expects a string (it is truthy)
OBJECT == <<<<"{}", 1>>>>

\* structuredData.author?.name || structuredData.author || result.author
StructuredAuthor(sd, author) ==
  IF sd.author.kind = "none" THEN author
  ELSE IF sd.author.kind = "string" THEN Or(sd.author.name, author)
  ELSE Or(sd.author.name, OBJECT)

\* The image of the structured data: a string, an object's url, or the
\* first entry of an array
StructuredImage(sd, image) ==
  IF sd.image.kind \in {"string", "object", "array"} /\ sd.image.url # <<>>
  THEN sd.image.url
  ELSE image

\* document.querySelector(...)?.textContent?.trim() for the first element
\* satisfying Test, the empty string when there is none
FirstText(nodes, Test(_)) ==
  LET hits == SelectSeq([k \in 1..Len(nodes) |-> k], Test) IN
  IF hits = <<>> THEN <<>> ELSE Trim(TextContent(nodes, hits[1]))

WEB_PAGE == <<<<"Web Page", 1>>>>

\* Title extraction (multiple fallbacks)
TitleFallbacks(d) ==
  LET IsH1(j) == d.nodes[j].tag = "h1" IN
  Or(d.meta["og:title"],
  Or(d.meta["twitter:title"],
  Or(d.meta["title"],
  Or(d.meta["article:title"],
  Or(FirstText(d.nodes, IsH1),
  Or(Trim(d.title),
  Or(LineText(d.title),
     WEB_PAGE)))))))

\* result.subtitle: og:description cut to 200 characters, or a subtitle element
Subtitle(d) ==
  LET IsSub(j) == \/ d.nodes[j].tag = "h2" /\ <<"s","u","b","t","i","t","l","e">> \in ClassTokens(d.nodes[j].cls)
      IsArtSub(j) == <<"a","r","t","i","c","l","e","-","s","u","b","t","i","t","l","e">> \in ClassTokens(d.nodes[j].cls)
      IsSubhead(j) == Includes(d.nodes[j].cls, <<"s","u","b","h","e","a","d">>)
  IN Or(Substring0(d.meta["og:description"], 200),
     Or(FirstText(d.nodes, IsSub),
     Or(FirstText(d.nodes, IsArtSub),
        FirstText(d.nodes, IsSubhead))))

\* Image extraction from the meta tags
ImageFallbacks(d) ==
  Or(d.meta["og:image"],
  Or(d.meta["twitter:image"],
  Or(d.meta["image"],
     d.meta["image_src"])))

\* Description extraction with the generic meta name tag tried first
DescriptionFallbacks_GenericFirst(d) ==
  Or(d.meta["description"],
  Or(d.meta["og:description"],
     d.meta["twitter:description"]))

\* Description extraction
DescriptionFallbacks(d) ==
  Or(d.meta["og:description"],
  Or(d.meta["twitter:description"],
     d.meta["description"]))

\* Author extraction (multiple sources)
AuthorFallbacks(d) ==
  LET IsRel(j) == d.nodes[j].rel = "author"
      IsName(j) == <<"a","u","t","h","o","r","-","n","a","m","e">> \in ClassTokens(d.nodes[j].cls)
      IsClass(j) == Includes(d.nodes[j].cls, <<"a","u","t","h","o","r">>)
      IsProp(j) == d.nodes[j].itemprop = "author"
  IN Or(d.meta["author"],
     Or(d.meta["article:author"],
     Or(d.meta["twitter:creator"],
     Or(FirstText(d.nodes, IsRel),
     Or(FirstText(d.nodes, IsName),
     Or(FirstText(d.nodes, IsClass),
        FirstText(d.nodes, IsProp)))))))

\* Date extraction
DateFallbacks(d) ==
  LET IsTimed(j) == d.nodes[j].tag = "time" /\ d.nodes[j].datetime # <<>>
      timed == SelectSeq([k \in 1..Len(d.nodes) |-> k], IsTimed)
      IsTime(j) == d.nodes[j].tag = "time"
  IN Or(d.meta["article:published_time"],
     Or(d.meta["publication_date"],
     Or(d.meta["date"],
     Or(IF timed = <<>> THEN <<>> ELSE d.nodes[timed[1]].datetime,
        FirstText(d.nodes, IsTime)))))

ModifiedFallbacks(d) ==
  Or(d.meta["article:modified_time"], d.meta["last-modified"])

\* detectLanguage()
detectLanguage(d) ==
  Or(d.meta["og:locale"], Or(d.meta["content-language"], Or(d.lang, <<<<"en", 1>>>>)))

\* The trimmed texts of the elements satisfying Test that are non-empty and
\* shorter than 50 characters, cut to the first limit of them
Labels(nodes, Test(_), limit) ==
  LET hits == SelectSeq([k \in 1..Len(nodes) |-> k], Test)
      texts == [k \in 1..Len(hits) |-> Trim(TextContent(nodes, hits[k]))]
      Fits(t) == TLen(t) > 0 /\ TLen(t) < 50
      kept == SelectSeq(texts, Fits)
  IN SubSeq(kept, 1, IF Len(kept) < limit THEN Len(kept) ELSE limit)

Tags(d) ==
  LET IsTag(j) == \/ d.nodes[j].rel = "tag"
                  \/ Includes(d.nodes[j].cls, <<"t","a","g">>)
  IN Labels(d.nodes, IsTag, 10)

Categories(d) ==
  LET IsCat(j) == \/ d.nodes[j].rel = "category"
                  \/ <<"c","a","t","e","g","o","r","y">> \in ClassTokens(d.nodes[j].cls)
                  \/ <<"a","r","t","i","c","l","e","-","c","a","t","e","g","o","r","y">> \in ClassTokens(d.nodes[j].cls)
  IN Labels(d.nodes, IsCat, 5)

(***************************************************************************)
(* Intelligent image selection                                             *)
(***************************************************************************)

MIN_IMAGE_WIDTH == 200
MIN_IMAGE_HEIGHT == 100
PREFERRED_BONUS == 1000

excludeKeywords == <<<<"i","c","o","n">>, <<"l","o","g","o">>, <<"a","v","a","t","a","r">>, <<"a","d">>, <<"b","a","n","n","e","r">>, <<"b","u","t","t","o","n">>, <<"e","m","o","j","i">>, <<"s","p","r","i","t","e">>>>
preferredKeywords == <<<<"f","e","a","t","u","r","e">>, <<"h","e","r","o">>, <<"m","a","i","n">>, <<"a","r","t","i","c","l","e">>, <<"p","o","s","t">>, <<"c","o","n","t","e","n","t">>>>

\* An attribute value as a text
RECURSIVE ToText(_)
ToText(chars) ==
  IF chars = <<>> THEN <<>> ELSE Norm(<<<<chars[1], 1>>>> \o ToText(Tail(chars)))

ParentClass(nodes, j) ==
  IF nodes[j].parent = 0 THEN <<>> ELSE ToLowerCase(nodes[nodes[j].parent].cls)

HasPreferredClass(nodes, j) ==
  \E k \in 1..Len(preferredKeywords) :
    \/ Includes(ToLowerCase(nodes[j].cls), preferredKeywords[k])
    \/ Includes(ParentClass(nodes, j), preferredKeywords[k])

\* The filter of candidateImages: an img with a src that is no data: URL,
\* free of the exclusion keywords and large enough
EligibleImage(nodes, j) ==
  /\ nodes[j].tag = "img" /\ nodes[j].src # <<>>
  /\ ~(Len(nodes[j].src) >= 5 /\ SubSeq(nodes[j].src, 1, 5) = <<"d","a","t","a",":">>)
  /\ ~\E k \in 1..Len(excludeKeywords) :
        \/ Includes(ToLowerCase(nodes[j].src), excludeKeywords[k])
        \/ Includes(ToLowerCase(nodes[j].cls), excludeKeywords[k])
        \/ Includes(ParentClass(nodes, j), excludeKeywords[k])
  /\ ~(nodes[j].width < MIN_IMAGE_WIDTH \/ nodes[j].height < MIN_IMAGE_HEIGHT)

\* img.dataset.score = hasPreferredClass ? 1000 : 0, written by the filter
\* on every image it keeps
WithScores(nodes) ==
  [j \in 1..Len(nodes) |->
     IF EligibleImage(nodes, j)
     THEN [nodes[j] EXCEPT !.dataScore =
             IF HasPreferredClass(nodes, j) THEN PREFERRED_BONUS ELSE 0]
     ELSE nodes[j]]

\* The score without the data-score the filter wrote
ImageScore_AreaOnly(e) == e.width * e.height

\* area + parseInt(img.dataset.score || 0)
ImageScore(e) == e.width * e.height + (IF e.dataScore < 0 THEN 0 ELSE e.dataScore)

RECURSIVE InsertByScore(_, _, _)
\* Stable insertion: j goes after every entry whose score is not smaller
InsertByScore(nodes, sorted, j) ==
  IF sorted = <<>> THEN <<j>>
  ELSE IF ImageScore(nodes[sorted[1]]) >= ImageScore(nodes[j])
       THEN <<sorted[1]>> \o InsertByScore(nodes, Tail(sorted), j)
       ELSE <<j>> \o sorted

RECURSIVE SortByScore(_, _, _)
\* .sort((a, b) => b.score - a.score), a stable sort
SortByScore(nodes, todo, sorted) ==
  IF todo = <<>> THEN sorted
  ELSE SortByScore(nodes, Tail(todo), InsertByScore(nodes, sorted, todo[1]))

\* candidateImages, over the document whose images carry their scores
candidateImages(nodes) ==
  LET Is(j) == EligibleImage(nodes, j) IN
  SortByScore(nodes, SelectSeq([k \in 1..Len(nodes) |-> k], Is), <<>>)

(***************************************************************************)
(* Excerpt                                                                 *)
(***************************************************************************)

EXCERPT_LENGTH == 300

\* .replace(/\s+\S*$/, ''): the last run of white space and what follows it
DropLastWord(t) ==
  IF \E k \in 1..Len(t) : IsSpace(t[k][1])
  THEN LET last == CHOOSE k \in 1..Len(t) :
                     IsSpace(t[k][1]) /\ \A m \in (k + 1)..Len(t) : ~IsSpace(t[m][1])
           RECURSIVE Start(_)
           Start(k) == IF k > 1 /\ IsSpace(t[k - 1][1]) THEN Start(k - 1) ELSE k
       IN SubSeq(t, 1, Start(last) - 1)
  ELSE t

\* result.content.substring(0, 300).replace(/\s+\S*$/, '') + '...'
ExcerptOf(content) ==
  Norm(DropLastWord(Substring0(content, EXCERPT_LENGTH)) \o Txt(".", 3))

(***************************************************************************)
(* The documents the extractor is run on                                   *)
(***************************************************************************)

MaxBlocks == 2
MaxScripts == 2

El(tag, cls, text, parent) ==
  [Elem EXCEPT !.tag = tag, !.cls = cls, !.text = text, !.parent = parent]

\* n letters; a sentence of n characters: a capital, letters, a full stop
W(n) == Txt("a", n)
Sent(n) == Txt("A", 1) \o Txt("a", n - 2) \o Txt(".", 1)

\* Text with stray white space: words, a comma set off by spaces, blank lines
Messy(n) ==
  Txt("a", 40) \o Txt(" ", 2) \o Txt(",", 1) \o Txt("a", n) \o Txt(".", 1)
  \o Txt("\n", 4) \o Txt(" ", 3) \o Txt("B", 1) \o Txt("a", 50) \o Txt("\t", 1)
  \o Txt("a", 7) \o Txt(" ", 1)

\* The building blocks of a page: a top-level element with its subtree
BlockCatalogue == <<
  \* 1: <article><p>400 characters</p></article>
  << El("article", <<>>, <<>>, 0), El("p", <<>>, Sent(400), 1) >>,
  \* 2: <article><p>10 characters</p></article>
  << El("article", <<>>, <<>>, 0), El("p", <<>>, Sent(10), 1) >>,
  \* 3: <div class="article-content"> with paragraphs of 10, 11 and 301 characters
  << El("div", <<"a","r","t","i","c","l","e","-","c","o","n","t","e","n","t">>, <<>>, 0), El("p", <<>>, Sent(10), 1),
     El("p", <<>>, Sent(11), 1), El("p", <<>>, Sent(301), 1) >>,
  \* 4: <div class="sidebar-nav"><a>500 characters</a></div>
  << El("div", <<"s","i","d","e","b","a","r","-","n","a","v">>, <<>>, 0), El("a", <<>>, W(500), 1) >>,
  \* 5: <div><p>25,000 characters</p></div>
  << El("div", <<>>, <<>>, 0), El("p", <<>>, W(25000), 1) >>,
  \* 6: <div> holding untidy text of its own, no paragraph
  << El("div", <<>>, Messy(300), 0) >>,
  \* 7: <div><a>200 characters</a><p>150 characters</p></div>
  << El("div", <<>>, <<>>, 0), El("a", <<>>, W(200), 1), El("p", <<>>, W(150), 1) >>,
  \* 8: <section> with a paragraph, an aria-hidden span and a page header
  << El("section", <<>>, <<>>, 0), El("p", <<>>, Sent(350), 1),
     [El("span", <<>>, W(20), 1) EXCEPT !.ariaHidden = "true"],
     El("div", <<"p","a","g","e","-","h","e","a","d","e","r">>, <<>>, 1), El("p", <<>>, Sent(30), 4) >>,
  \* 9: <main><article><h2>..</h2><p>320 characters</p></article></main>
  << El("main", <<>>, <<>>, 0), El("article", <<>>, <<>>, 1),
     El("h2", <<>>, Sent(12), 2), El("p", <<>>, Sent(320), 2) >>,
  \* 10: <img src="https://x.org/photo.jpg" width=800 height=600>
  << [El("img", <<>>, <<>>, 0) EXCEPT !.src = <<"h","t","t","p","s",":","/","/","x",".","o","r","g","/","p","h","o","t","o",".","j","p","g">>, !.width = 800, !.height = 600] >>,
  \* 11: <div></div>
  << El("div", <<>>, <<>>, 0) >>,
  \* 12: <div class="comments"><p>25,000 characters</p></div>
  << El("div", <<"c","o","m","m","e","n","t","s">>, <<>>, 0), El("p", <<>>, W(25000), 1) >>,
  \* 13: <div class="markdown-body"><article><p>400 characters</p></article>
  \*     <p>301 characters</p></div>
  << El("div", <<"m","a","r","k","d","o","w","n","-","b","o","d","y">>, <<>>, 0), El("article", <<>>, <<>>, 1),
     El("p", <<>>, Sent(400), 2), El("p", <<>>, Sent(301), 1) >>,
  \* 14: <div aria-hidden="true"><p>350 characters</p></div>
  << [El("div", <<>>, <<>>, 0) EXCEPT !.ariaHidden = "true"], El("p", <<>>, Sent(350), 1) >>,
  \* 15: <script>30 characters</script>
  << El("script", <<>>, W(30), 0) >>
>>

\* The block with its parent indices moved by off
Shift(block, off) ==
  [k \in 1..Len(block) |->
     [block[k] EXCEPT !.parent = IF @ = 0 THEN 0 ELSE @ + off]]

RECURSIVE Build(_, _)
\* The elements of a page made of the listed blocks, appended to nodes
Build(nodes, blocks) ==
  IF blocks = <<>> THEN nodes
  ELSE Build(nodes \o Shift(BlockCatalogue[blocks[1]], Len(nodes)), Tail(blocks))

MetaKeys == {"og:title", "twitter:title", "title", "article:title",
             "og:description", "twitter:description", "description",
             "og:image", "twitter:image", "image", "image_src",
             "author", "article:author", "twitter:creator",
             "article:published_time", "publication_date", "date",
             "article:modified_time", "last-modified",
             "og:locale", "content-language"}

NoMeta == [k \in MetaKeys |-> <<>>]

\* Pages that differ in their body: up to MaxBlocks blocks, no metadata
BodyDocuments ==
  { [nodes |-> Build(<<>>, blocks), meta |-> NoMeta, jsonld |-> <<>>,
     title |-> <<>>, lang |-> <<>>] :
    blocks \in UNION {[1..n -> 1..Len(BlockCatalogue)] : n \in 0..MaxBlocks} }

Headline(c) == [Item EXCEPT !.type = "NewsArticle", !.headline = Txt(c, 1)]

\* The JSON-LD script blocks a page may carry
ScriptCatalogue == <<
  \* 1: text that JSON.parse rejects
  [ok |-> FALSE, items |-> <<>>],
  \* 2: {"@type": "NewsArticle", "headline": "X"}
  [ok |-> TRUE, items |-> <<Headline("X")>>],
  \* 3: {"@type": "Article"} with no headline
  [ok |-> TRUE, items |-> <<[Item EXCEPT !.type = "Article"]>>],
  \* 4: [null, {"@type": "NewsArticle", "headline": "Z"}]
  [ok |-> TRUE, items |-> <<NullItem, Headline("Z")>>],
  \* 5: {"@type": "WebPage", "headline": "W"}
  [ok |-> TRUE, items |-> <<[Item EXCEPT !.type = "WebPage", !.headline = Txt("W", 1)]>>],
  \* 6: [{"@type": "WebPage"}, {"@type": "BlogPosting", "headline": "V"}]
  [ok |-> TRUE, items |-> <<[Item EXCEPT !.type = "WebPage"],
                            [Item EXCEPT !.type = "BlogPosting", !.headline = Txt("V", 1)]>>]
>>

\* Pages that differ in their metadata: up to MaxScripts JSON-LD blocks, an
\* og:title or none, a first heading or none, over one article
HeadDocuments ==
  { [nodes |-> Build(IF h1 THEN <<El("h1", <<>>, Txt("H", 1), 0)>> ELSE <<>>, <<1>>),
     meta |-> [NoMeta EXCEPT !["og:title"] = og],
     jsonld |-> [k \in 1..Len(scripts) |-> ScriptCatalogue[scripts[k]]],
     title |-> Txt("T", 1), lang |-> <<>>] :
    h1 \in BOOLEAN, og \in {<<>>, Txt("Y", 1)},
    scripts \in UNION {[1..n -> 1..Len(ScriptCatalogue)] : n \in 0..MaxScripts} }

MaxImages == 3

\* The images a page may show
ImageCatalogue == <<
  \* 1: <img src="https://x.org/p.jpg" width=800 height=600>
  << [El("img", <<>>, <<>>, 0) EXCEPT !.src = <<"h","t","t","p","s",":","/","/","x",".","o","r","g","/","p",".","j","p","g">>, !.width = 800, !.height = 600] >>,
  \* 2: <img class="icon-thumb" src="https://x.org/t.png" width=800 height=600>
  << [El("img", <<"i","c","o","n","-","t","h","u","m","b">>, <<>>, 0) EXCEPT !.src = <<"h","t","t","p","s",":","/","/","x",".","o","r","g","/","t",".","p","n","g">>, !.width = 800, !.height = 600] >>,
  \* 3: <img class="hero-image" src="https://x.org/h.jpg" width=1920 height=1080>
  << [El("img", <<"h","e","r","o","-","i","m","a","g","e">>, <<>>, 0) EXCEPT !.src = <<"h","t","t","p","s",":","/","/","x",".","o","r","g","/","h",".","j","p","g">>, !.width = 1920, !.height = 1080] >>,
  \* 4: <img src="https://x.org/q.jpg" width=600 height=800>
  << [El("img", <<>>, <<>>, 0) EXCEPT !.src = <<"h","t","t","p","s",":","/","/","x",".","o","r","g","/","q",".","j","p","g">>, !.width = 600, !.height = 800] >>,
  \* 5: <img class="post" src="https://x.org/r.jpg" width=799 height=600>
  << [El("img", <<"p","o","s","t">>, <<>>, 0) EXCEPT !.src = <<"h","t","t","p","s",":","/","/","x",".","o","r","g","/","r",".","j","p","g">>, !.width = 799, !.height = 600] >>,
  \* 6: <img src="https://x.org/s.jpg" width=199 height=5000>
  << [El("img", <<>>, <<>>, 0) EXCEPT !.src = <<"h","t","t","p","s",":","/","/","x",".","o","r","g","/","s",".","j","p","g">>, !.width = 199, !.height = 5000] >>,
  \* 7: <div class="logo-wrap"><img src="https://x.org/b.jpg" width=2000 height=2000></div>
  << El("div", <<"l","o","g","o","-","w","r","a","p">>, <<>>, 0), [El("img", <<>>, <<>>, 1) EXCEPT !.src = <<"h","t","t","p","s",":","/","/","x",".","o","r","g","/","b",".","j","p","g">>, !.width = 2000, !.height = 2000] >>
>>

RECURSIVE Gallery(_, _)
\* The elements of a page made of the listed images, appended to nodes
Gallery(nodes, images) ==
  IF images = <<>> THEN nodes
  ELSE Gallery(nodes \o Shift(ImageCatalogue[images[1]], Len(nodes)), Tail(images))

\* Pages that differ in their images: up to MaxImages images, and a single
\* image or none beside an og:image
ImageDocuments ==
  { [nodes |-> Gallery(<<>>, images), meta |-> NoMeta, jsonld |-> <<>>,
     title |-> <<>>, lang |-> <<>>] :
    images \in UNION {[1..n -> 1..Len(ImageCatalogue)] : n \in 0..MaxImages} }
  \cup
  { [nodes |-> Gallery(<<>>, images),
     meta |-> [NoMeta EXCEPT !["og:image"] = Txt("M", 1)], jsonld |-> <<>>,
     title |-> <<>>, lang |-> <<>>] :
    images \in UNION {[1..n -> 1..Len(ImageCatalogue)] : n \in 0..1} }

\* Single pages for particular cases
ScenarioCatalogue == <<
  \* 1: <article><p>20 characters</p>
  \*      <div class="comments"><p>400 characters</p></div></article>
  << El("article", <<>>, <<>>, 0), El("p", <<>>, Sent(20), 1),
     El("div", <<"c","o","m","m","e","n","t","s">>, <<>>, 1), El("p", <<>>, Sent(400), 3) >>,
  \* 2: <div><article><p>300 characters</p></article><p>60 characters</p></div>
  << El("div", <<>>, <<>>, 0), El("article", <<>>, <<>>, 1),
     El("p", <<>>, Sent(300), 2), El("p", <<>>, Sent(60), 1) >>,
  \* 3: <div><a>200 characters</a><p>200 characters</p></div>
  << El("div", <<>>, <<>>, 0), El("a", <<>>, Sent(200), 1),
     El("p", <<>>, Sent(200), 1) >>,
  \* 4: <div>150 characters<a>150 characters</a> and 29 empty spans</div>:
  \*    link density 0.5, content density 10, score 150 + 100 - 250 - 5
  << El("div", <<>>, Sent(150), 0), El("a", <<>>, Sent(150), 1) >>
     \o [k \in 1..29 |-> El("span", <<>>, <<>>, 1)]
>>

ScenarioDocuments ==
  { [nodes |-> ScenarioCatalogue[k], meta |-> NoMeta, jsonld |-> <<>>,
     title |-> <<>>, lang |-> <<>>] : k \in 1..Len(ScenarioCatalogue) }

\* The meta tags of one field each, in the order of the page's head
FieldKeys == <<
  <<"og:title", "twitter:title", "title", "article:title">>,
  <<"og:description", "twitter:description", "description">>,
  <<"og:image", "twitter:image", "image", "image_src">>,
  <<"author", "article:author", "twitter:creator">>,
  <<"article:published_time", "publication_date", "date">>
>>

\* The content of a meta tag: different for every tag of a field
MetaValue(key) ==
  LET f == CHOOSE n \in 1..Len(FieldKeys) :
             \E k \in 1..Len(FieldKeys[n]) : FieldKeys[n][k] = key
      r == CHOOSE k \in 1..Len(FieldKeys[f]) : FieldKeys[f][k] = key
  IN Txt("v", r)

\* {"@type": "NewsArticle", "headline": .., "author": .., "datePublished": ..,
\*  "description": .., "image": ..}
FullArticle ==
  [Item EXCEPT !.type = "NewsArticle", !.headline = Txt("j", 1),
               !.author = [kind |-> "string", name |-> Txt("j", 2)],
               !.datePublished = Txt("j", 3), !.description = Txt("j", 4),
               !.image = [kind |-> "string", url |-> Txt("j", 5)]]

\* Pages that differ in the meta tags of one field: any of the field's tags,
\* with or without a JSON-LD article, over one article
MetaDocuments ==
  { [nodes |-> Build(<<>>, <<1>>),
     meta |-> [key \in MetaKeys |->
                 IF key \in present THEN MetaValue(key) ELSE <<>>],
     jsonld |-> IF article THEN <<[ok |-> TRUE, items |-> <<FullArticle>>]>>
                ELSE <<>>,
     title |-> Txt("T", 1), lang |-> <<>>] :
    present \in UNION { SUBSET {FieldKeys[n][k] : k \in 1..Len(FieldKeys[n])} :
                          n \in 1..Len(FieldKeys) },
    article \in BOOLEAN }

Documents ==
  BodyDocuments \cup HeadDocuments \cup ImageDocuments \cup ScenarioDocuments
    \cup MetaDocuments

(***************************************************************************)
(* The extraction script                                                   *)
(***************************************************************************)

VARIABLES
  doc,          \* the live document
  pc,           \* the statement the script is at
  attempts,     \* waitForDynamicContent's counter
  timer,        \* whether a checkContent timeout is pending
  resolved,     \* whether waitForDynamicContent's promise is resolved
  scrolls,      \* the window.scrollTo calls made, in order
  result,       \* the result record
  mainElement,  \* findMainContent()'s element, 0 for null
  clone,        \* the filtered clone text was extracted from, <<>> for none
  state,        \* the side panel's state object
  elements,     \* the side panel's card elements
  generation,   \* the handleGenerateSummary calls in flight
  translation,  \* the handleConfirmTranslate call in flight
  shown,        \* what displayCard put on the card, and what happened since
  summaryCall,  \* the summary service's generateSummary(params) call
  smartCall,    \* the smartSummarize(text, options) call
  storage,      \* the card list chrome.storage.local holds under STORAGE_KEY
  now,          \* Date.now()
  storageCalls, \* the storage utility's calls in flight, by slot
  started,      \* the number of storage calls made so far
  session,      \* api/ai.js: the cached LanguageModel session, NULL for none
  aiCalls,      \* the generateText calls in flight, by slot
  settings,     \* the values of the temperature and top-K sliders
  creates,      \* the LanguageModel.create calls since session was last reset
  statusElement,  \* ui/status.js: the status element, its text and display
  errorElement,   \* the error element, its text and display
  loadingElement, \* whether the loading indicator is displayed
  hideTimers,     \* the pending auto-hide timeouts
  shows           \* the number of showStatus and showError calls so far

extractorVars ==
  <<doc, pc, attempts, timer, resolved, scrolls, result, mainElement, clone>>
sidePanelVars == <<state, elements, generation, translation, shown>>
summaryVars == <<summaryCall, smartCall>>
storageVars == <<storage, now, storageCalls, started>>
aiVars == <<session, aiCalls, settings, creates>>
statusVars == <<statusElement, errorElement, loadingElement, hideTimers, shows>>
outsideExtractor == <<sidePanelVars, summaryVars, storageVars, aiVars, statusVars>>
outsidePanelAndAi == <<extractorVars, summaryVars, storageVars, statusVars>>
outsidePanel == <<outsidePanelAndAi, aiVars>>
outsideSummary == <<extractorVars, sidePanelVars, storageVars, aiVars, statusVars>>
outsideStorage == <<extractorVars, sidePanelVars, summaryVars, aiVars, statusVars>>
outsideAi == <<extractorVars, sidePanelVars, summaryVars, storageVars, statusVars>>
outsideStatus == <<extractorVars, sidePanelVars, summaryVars, storageVars, aiVars>>
vars ==
  <<extractorVars, sidePanelVars, summaryVars, storageVars, aiVars, statusVars>>

\* null and undefined
NULL == [kind |-> "null"]

\* The summary service before any call
NoSummaryCall ==
  [pc |-> "idle", customPrompt |-> "", summaryType |-> "", apiToUse |-> "",
   available |-> "", calls |-> <<>>, prompt |-> "", outcome |-> NULL]

MAX_SAVED_CARDS == 50
MaxCalls == 2
MaxTicks == 2
MaxStarted == 3

\* No call of the storage utility in the slot
NoStorageCall ==
  [op |-> "none", pc |-> "", cardData |-> NULL, cardId |-> 0, cards |-> <<>>,
   readFailed |-> FALSE]

\* A stored list of n cards saved one after the other, the newest first
Stored(n) == [k \in 1..n |-> [kind |-> "card", id |-> n + 1 - k, title |-> "t"]]

\* No card stored, no call in flight
StorageEmpty ==
  /\ storage = <<>>
  /\ now = MAX_SAVED_CARDS + 1
  /\ storageCalls = [slot \in 1..MaxCalls |-> NoStorageCall]
  /\ started = 0

\* smartSummarize before any call
NoSmartCall ==
  [pc |-> "idle", requestedLength |-> "", lengthsToTry |-> <<>>, tried |-> 0,
   errors |-> <<>>, outcome |-> NULL]

\* No generated card is on display
NothingShown ==
  [title |-> [base |-> "", via |-> <<>>], summary |-> <<>>, since |-> "none"]

MaxAiCalls == 2
\* CONFIG.DEFAULT_TEMPERATURE (0.8) in tenths, CONFIG.DEFAULT_TOP_K
DEFAULT_TEMPERATURE == 8
DEFAULT_TOP_K == 3

\* Slider values: temperatures in tenths, 0 the lowest of the range 0-2
Temperatures == {0, DEFAULT_TEMPERATURE}
TopKs == {DEFAULT_TOP_K, 8}
Settings == [temperature : Temperatures, topK : TopKs]

\* No generateText call in the slot
NoAiCall == [pc |-> "idle", params |-> NULL, aiSession |-> NULL]

\* api/ai.js as it is loaded (let session = null), the sliders at the defaults
AiLoaded ==
  /\ session = NULL
  /\ aiCalls = [slot \in 1..MaxAiCalls |-> NoAiCall]
  /\ settings = [temperature |-> DEFAULT_TEMPERATURE, topK |-> DEFAULT_TOP_K]
  /\ creates = 0

\* resetSession(): session = null
resetSession ==
  /\ session' = NULL
  /\ creates' = 0

MaxShows == 3

\* A status or error element nothing was shown in
Hidden == [text |-> "", visible |-> FALSE, call |-> 0]

\* ui/status.js after initStatusElements: nothing shown, no timeout pending
StatusInitialized ==
  /\ statusElement = Hidden
  /\ errorElement = Hidden
  /\ loadingElement = FALSE
  /\ hideTimers = {}
  /\ shows = 0

\* The side panel as it is loaded: const state = {...}, no card on display
SidePanelLoaded ==
  /\ state = [currentVideoData |-> NULL, currentContentType |-> "null",
              originalSummary |-> NULL, originalTitle |-> NULL,
              isTranslated |-> FALSE]
  /\ elements = [cardTitle |-> [base |-> "", via |-> <<>>], cardSummary |-> <<>>,
                 cardContainer |-> FALSE, translationInfo |-> FALSE,
                 translationLanguage |-> "",
                 buttonConfirmTranslate |-> TRUE]
  /\ generation = [pending |-> 0]
  /\ translation = [pc |-> "idle"]
  /\ shown = NothingShown

MAX_SCROLL_ATTEMPTS == 3

EmptyResult ==
  [type |-> "webpage", title |-> <<>>, subtitle |-> <<>>, content |-> <<>>,
   image |-> <<>>, author |-> <<>>, publishDate |-> <<>>, modifiedDate |-> <<>>,
   description |-> <<>>, excerpt |-> <<>>, tags |-> <<>>, categories |-> <<>>,
   language |-> <<>>, readingTime |-> 0, wordCount |-> 0,
   structuredData |-> NullItem]

Init ==
  /\ doc \in Documents
  /\ pc = "start"
  /\ attempts = 0
  /\ timer = FALSE
  /\ resolved = FALSE
  /\ scrolls = <<>>
  /\ result = EmptyResult
  /\ mainElement = 0
  /\ clone = <<>>
  /\ SidePanelLoaded
  /\ summaryCall = NoSummaryCall
  /\ smartCall = NoSmartCall
  /\ StorageEmpty
  /\ AiLoaded
  /\ StatusInitialized

\* checkContent() resolving the promise at its first call already
checkContent_ResolvesAtOnce ==
  /\ attempts' = attempts + 1
  /\ scrolls' = Append(scrolls, IF attempts + 1 = 1 THEN "bottom"
                                ELSE IF attempts + 1 = 2 THEN "middle" ELSE "top")
  /\ timer' = (attempts + 1 < MAX_SCROLL_ATTEMPTS)
  /\ resolved' = TRUE

\* checkContent(): one scroll, then another timeout or the resolution
checkContent ==
  /\ attempts' = attempts + 1
  /\ scrolls' = Append(scrolls, IF attempts + 1 = 1 THEN "bottom"
                                ELSE IF attempts + 1 = 2 THEN "middle" ELSE "top")
  /\ timer' = (attempts + 1 < MAX_SCROLL_ATTEMPTS)
  /\ resolved' = (resolved \/ ~(attempts + 1 \in {1, 2})
                           \/ ~(attempts + 1 < MAX_SCROLL_ATTEMPTS))

\* waitForDynamicContent(): the promise executor's call of checkContent
StartWait ==
  /\ pc = "start"
  /\ checkContent
  /\ pc' = "waiting"
  /\ UNCHANGED <<doc, result, mainElement, clone>>
  /\ UNCHANGED outsideExtractor

\* A timeout set by checkContent expires
TimerFires ==
  /\ pc = "waiting" /\ timer
  /\ checkContent
  /\ UNCHANGED <<doc, pc, result, mainElement, clone>>
  /\ UNCHANGED outsideExtractor

\* The await returns; result.structuredData and the fields read from it
StructuredData ==
  /\ pc = "waiting" /\ resolved
  /\ LET sd == extractStructuredData(doc) IN
     result' = IF sd.kind = "null" THEN [result EXCEPT !.structuredData = sd]
               ELSE [result EXCEPT
                       !.structuredData = sd,
                       !.title = Or(sd.headline, @),
                       !.author = StructuredAuthor(sd, @),
                       !.publishDate = Or(sd.datePublished, @),
                       !.modifiedDate = Or(sd.dateModified, @),
                       !.description = Or(sd.description, @),
                       !.image = StructuredImage(sd, @)]
  /\ pc' = "meta"
  /\ UNCHANGED <<doc, attempts, timer, resolved, scrolls, mainElement, clone>>
  /\ UNCHANGED outsideExtractor

\* Meta tag extraction: the fields the structured data left empty
MetaTags ==
  /\ pc = "meta"
  /\ result' = [result EXCEPT
                  !.title = IF @ = <<>> THEN TitleFallbacks(doc) ELSE @,
                  !.subtitle = Subtitle(doc),
                  !.image = IF @ = <<>> THEN ImageFallbacks(doc) ELSE @,
                  !.description = IF @ = <<>> THEN DescriptionFallbacks(doc) ELSE @,
                  !.author = IF @ = <<>> THEN AuthorFallbacks(doc) ELSE @,
                  !.publishDate = IF @ = <<>> THEN DateFallbacks(doc) ELSE @,
                  !.modifiedDate = IF @ = <<>> THEN ModifiedFallbacks(doc) ELSE @,
                  !.language = detectLanguage(doc),
                  !.tags = Tags(doc),
                  !.categories = Categories(doc)]
  /\ pc' = "image"
  /\ UNCHANGED <<doc, attempts, timer, resolved, scrolls, mainElement, clone>>
  /\ UNCHANGED outsideExtractor

\* Intelligent image selection, when no image was found so far: the filter
\* writes data-score on the document's images, the best candidate's src is
\* taken
ImageSelection ==
  /\ pc = "image"
  /\ IF result.image = <<>>
     THEN /\ doc' = [doc EXCEPT !.nodes = WithScores(doc.nodes)]
          /\ LET candidates == candidateImages(doc'.nodes) IN
             result' = IF candidates # <<>>
                       THEN [result EXCEPT
                               !.image = ToText(doc'.nodes[candidates[1]].src)]
                       ELSE result
     ELSE UNCHANGED <<doc, result>>
  /\ pc' = "locate"
  /\ UNCHANGED <<attempts, timer, resolved, scrolls, mainElement, clone>>
  /\ UNCHANGED outsideExtractor

\* The fallback read from textContent alone
FallbackText_TextContent(nodes) == TextContent(nodes, 0)

\* The fallback left out: no text when no element was found
FallbackText_None(nodes) == <<>>

\* document.body.innerText || document.body.textContent || ''
FallbackText(nodes) == Or(InnerText(nodes, 0), TextContent(nodes, 0))

\* const mainElement = findMainContent()
Locate ==
  /\ pc = "locate"
  /\ mainElement' = findMainContent(doc.nodes)
  /\ pc' = "extract"
  /\ UNCHANGED <<doc, attempts, timer, resolved, scrolls, result, clone>>
  /\ UNCHANGED outsideExtractor

\* result.content: the structured text of the element's filtered clone, or
\* the body's visible (else whole) text when no element was found
Extract ==
  /\ pc = "extract"
  /\ IF mainElement # 0
     THEN LET filtered == FilteredClone(doc.nodes, mainElement) IN
          /\ clone' = filtered
          /\ result' = [result EXCEPT !.content = StructuredText(filtered)]
     ELSE /\ clone' = clone
          /\ result' = [result EXCEPT !.content = FallbackText(doc.nodes)]
  /\ pc' = "clean"
  /\ UNCHANGED <<doc, attempts, timer, resolved, scrolls, mainElement>>
  /\ UNCHANGED outsideExtractor

\* result.content = cleanText(result.content)
Clean ==
  /\ pc = "clean"
  /\ result' = [result EXCEPT !.content = CleanText(@)]
  /\ pc' = "stats"
  /\ UNCHANGED <<doc, attempts, timer, resolved, scrolls, mainElement, clone>>
  /\ UNCHANGED outsideExtractor

\* Calculate statistics
Statistics ==
  /\ pc = "stats"
  /\ result' = [result EXCEPT !.wordCount = WordCountOf(result.content),
                              !.readingTime = EstimateReadingTime(result.content)]
  /\ pc' = "excerpt"
  /\ UNCHANGED <<doc, attempts, timer, resolved, scrolls, mainElement, clone>>
  /\ UNCHANGED outsideExtractor

\* Create excerpt if not available; the result is returned
Excerpt ==
  /\ pc = "excerpt"
  /\ result' = IF result.excerpt = <<>> /\ result.content # <<>>
               THEN [result EXCEPT !.excerpt = ExcerptOf(result.content)]
               ELSE result
  /\ pc' = "done"
  /\ UNCHANGED <<doc, attempts, timer, resolved, scrolls, mainElement, clone>>
  /\ UNCHANGED outsideExtractor

Next ==
  \/ StartWait
  \/ TimerFires
  \/ StructuredData
  \/ MetaTags
  \/ ImageSelection
  \/ Locate
  \/ Extract
  \/ Clean
  \/ Statistics
  \/ Excerpt

Spec == Init /\ [][Next]_vars

\* The script with the promise executor running and every timeout that was
\* set expiring: the event loop runs every task that is due
LiveSpec == Spec /\ WF_vars(StartWait) /\ WF_vars(TimerFires)

(***************************************************************************)
(* The side panel: summary card, translation, restore                      *)
(***************************************************************************)

MaxTranslations == 2
MaxPending == 1

\* A text of the panel: what it says, and the languages it was translated
\* into, in turn
PanelText(base) == [base |-> base, via |-> <<>>]

\* translator.translate(text): the text in the target language
translateText(text, targetLanguage) ==
  [text EXCEPT !.via = Append(@, targetLanguage)]

\* The pages the panel may hold as currentVideoData
Pages ==
  { [kind |-> "page", title |-> "A", content |-> "c", description |-> ""],
    [kind |-> "page", title |-> "", content |-> "", description |-> "d"],
    [kind |-> "page", title |-> "A", content |-> "", description |-> ""] }

\* A string held where null may be held
String(v) == [kind |-> "string", v |-> v]

\* A string that holds markup: a sequence of text nodes
Html(v) == [kind |-> "html", v |-> v]

\* The summaries generateSummary may return, as the text nodes of their
\* html: none, two
Summaries ==
  { <<>>, <<PanelText("S1"), PanelText("S2")>> }

Languages == {"en", "es"}

\* !value for a string or null: null, and the empty string
Falsy(x) ==
  \/ x.kind = "null"
  \/ x.kind = "html" /\ x.v = <<>>
  \/ x.kind = "string" /\ x.v.base = "" /\ x.v.via = <<>>

\* prepareContent(...).content for a web page
PreparedContent(data) ==
  IF data.content # "" THEN data.content ELSE data.description

\* displayCard's title: data?.title || 'Web Page'
CardTitleOf(data) ==
  IF data.kind = "null" \/ data.title = "" THEN PanelText("Web Page")
  ELSE PanelText(data.title)

\* handleFetch / handleAutoDetect, the page arriving
ContentFetched ==
  /\ \E page \in Pages :
       state' = [state EXCEPT !.currentContentType = "webpage",
                              !.currentVideoData = page]
  /\ shown' = NothingShown
  /\ UNCHANGED <<elements, generation, translation>>
  /\ UNCHANGED outsidePanel

\* handleCancelSelection()
handleCancelSelection ==
  /\ state' = [state EXCEPT !.currentVideoData = NULL]
  /\ shown' = NothingShown
  /\ UNCHANGED <<elements, generation, translation>>
  /\ UNCHANGED outsidePanel

\* resetState(), as the temperature and top-K sliders call it
StateAfterReset ==
  [state EXCEPT !.currentVideoData = NULL, !.currentContentType = "null",
                !.originalSummary = NULL, !.originalTitle = NULL,
                !.isTranslated = FALSE]

resetState ==
  /\ state' = StateAfterReset
  /\ shown' = NothingShown
  /\ resetSession
  /\ UNCHANGED <<elements, generation, translation>>
  /\ UNCHANGED <<aiCalls, settings>>
  /\ UNCHANGED outsidePanelAndAi

\* handleReset(): resetState() and hideCard()
handleReset ==
  /\ state' = StateAfterReset
  /\ elements' = [elements EXCEPT !.cardContainer = FALSE]
  /\ shown' = NothingShown
  /\ resetSession
  /\ UNCHANGED <<generation, translation>>
  /\ UNCHANGED <<aiCalls, settings>>
  /\ UNCHANGED outsidePanelAndAi

\* handleGenerateSummary() up to await generateSummary(...): nothing happens
\* without a page, and a page without content ends in showError
handleGenerateSummary ==
  /\ generation.pending < MaxPending
  /\ state.currentVideoData.kind # "null"
  /\ PreparedContent(state.currentVideoData) # ""
  /\ generation' = [pending |-> generation.pending + 1]
  /\ shown' = NothingShown
  /\ UNCHANGED <<state, elements, translation>>
  /\ UNCHANGED outsidePanel

\* generateSummary resolves: state.originalSummary = summary.html and
\* displayCard(state.currentVideoData, summary, ...)
SummaryGenerated ==
  /\ generation.pending > 0
  /\ \E html \in Summaries :
       /\ state' = [state EXCEPT !.originalSummary = Html(html)]
       /\ elements' = [elements EXCEPT
                         !.cardTitle = CardTitleOf(state.currentVideoData),
                         !.cardSummary = html,
                         !.cardContainer = TRUE]
       /\ shown' = IF translation.pc = "idle"
                   THEN [title |-> CardTitleOf(state.currentVideoData),
                         summary |-> html, since |-> "generated"]
                   ELSE NothingShown
  /\ generation' = [pending |-> generation.pending - 1]
  /\ UNCHANGED translation
  /\ UNCHANGED outsidePanel

\* generateSummary rejects: showError
SummaryFailed ==
  /\ generation.pending > 0
  /\ generation' = [pending |-> generation.pending - 1]
  /\ UNCHANGED <<state, elements, translation, shown>>
  /\ UNCHANGED outsidePanel

\* getLanguageName(languageCode)
getLanguageName(languageCode) ==
  IF languageCode = "es" THEN "Spanish" ELSE languageCode

\* handleConfirmTranslate() up to its first await: nothing happens without a
\* page, and English is refused for a card that is not translated
handleConfirmTranslate ==
  /\ translation.pc = "idle"
  /\ elements.buttonConfirmTranslate
  /\ state.currentVideoData.kind # "null"
  /\ Len(elements.cardTitle.via) < MaxTranslations
  /\ \A k \in 1..Len(elements.cardSummary) :
       Len(elements.cardSummary[k].via) < MaxTranslations
  /\ \E targetLang \in Languages :
       /\ ~(targetLang = "en" /\ ~state.isTranslated)
       /\ translation' = [pc |-> "title", targetLang |-> targetLang,
                          titleText |-> elements.cardTitle,
                          summaryClone |-> elements.cardSummary,
                          translatedTitle |-> elements.cardTitle, next |-> 1]
  /\ state' = IF Falsy(state.originalSummary)
              THEN [state EXCEPT !.originalSummary = Html(elements.cardSummary),
                                 !.originalTitle = String(elements.cardTitle)]
              ELSE state
  /\ elements' = [elements EXCEPT !.buttonConfirmTranslate = FALSE]
  /\ UNCHANGED <<generation, shown>>
  /\ UNCHANGED outsidePanel

\* The end of handleConfirmTranslate's try block and its finally: the card
\* takes the translated title and summary
CardTranslated(title, summary) ==
  /\ elements' = [elements EXCEPT
                    !.cardTitle = title,
                    !.cardSummary = summary,
                    !.translationLanguage = getLanguageName(translation.targetLang),
                    !.translationInfo = TRUE,
                    !.buttonConfirmTranslate = TRUE]
  /\ state' = [state EXCEPT !.isTranslated = TRUE]
  /\ translation' = [pc |-> "idle"]
  /\ shown' = IF shown.since = "none" THEN NothingShown
              ELSE [shown EXCEPT !.since = "translated"]

\* await translate(titleText, ...) resolves
TitleTranslated ==
  /\ translation.pc = "title"
  /\ LET translatedTitle ==
           translateText(translation.titleText, translation.targetLang)
     IN IF translation.summaryClone = <<>>
        THEN CardTranslated(translatedTitle, translation.summaryClone)
        ELSE /\ translation' = [translation EXCEPT
                                  !.pc = "nodes",
                                  !.translatedTitle = translatedTitle]
             /\ UNCHANGED <<state, elements, shown>>
  /\ UNCHANGED generation
  /\ UNCHANGED outsidePanel

\* await translate(originalText, targetLang) resolves for a text node
NodeTranslated ==
  /\ translation.pc = "nodes"
  /\ LET k == translation.next
         summaryClone ==
           [translation.summaryClone EXCEPT
              ![k] = translateText(@, translation.targetLang)]
     IN IF k = Len(translation.summaryClone)
        THEN CardTranslated(translation.translatedTitle, summaryClone)
        ELSE /\ translation' = [translation EXCEPT
                                  !.summaryClone = summaryClone,
                                  !.next = k + 1]
             /\ UNCHANGED <<state, elements, shown>>
  /\ UNCHANGED generation
  /\ UNCHANGED outsidePanel

\* A translate call rejects: showError, and the button is enabled again
TranslationFailed ==
  /\ translation.pc \in {"title", "nodes"}
  /\ translation' = [pc |-> "idle"]
  /\ elements' = [elements EXCEPT !.buttonConfirmTranslate = TRUE]
  /\ UNCHANGED <<state, generation, shown>>
  /\ UNCHANGED outsidePanel

\* handleRestoreOriginal()
handleRestoreOriginal ==
  /\ elements' = [elements EXCEPT
                    !.cardSummary = IF Falsy(state.originalSummary) THEN @
                                    ELSE state.originalSummary.v,
                    !.cardTitle = IF Falsy(state.originalTitle) THEN @
                                  ELSE state.originalTitle.v,
                    !.translationInfo = FALSE]
  /\ state' = [state EXCEPT !.isTranslated = FALSE]
  /\ shown' = NothingShown
  /\ UNCHANGED <<generation, translation>>
  /\ UNCHANGED outsidePanel

\* The side panel on its own: no extraction script is running
ExtractorNotInjected ==
  /\ doc = [nodes |-> <<>>, meta |-> NoMeta, jsonld |-> <<>>,
            title |-> <<>>, lang |-> <<>>]
  /\ pc = "off"
  /\ attempts = 0
  /\ timer = FALSE
  /\ resolved = FALSE
  /\ scrolls = <<>>
  /\ result = EmptyResult
  /\ mainElement = 0
  /\ clone = <<>>

PanelInit ==
  /\ ExtractorNotInjected
  /\ SidePanelLoaded
  /\ summaryCall = NoSummaryCall
  /\ smartCall = NoSmartCall
  /\ StorageEmpty
  /\ AiLoaded
  /\ StatusInitialized

PanelNext ==
  \/ ContentFetched
  \/ handleCancelSelection
  \/ resetState
  \/ handleReset
  \/ handleGenerateSummary
  \/ SummaryGenerated
  \/ SummaryFailed
  \/ handleConfirmTranslate
  \/ TitleTranslated
  \/ NodeTranslated
  \/ TranslationFailed
  \/ handleRestoreOriginal

PanelSpec == PanelInit /\ [][PanelNext]_vars

(***************************************************************************)
(* The summary service: Summarizer API first, Prompt API as the fallback   *)
(***************************************************************************)

\* The custom prompts tried: none, blank, one
CustomPrompts == {"", " ", "p"}

\* params.summaryType: the four types and one the switch does not know
SummaryTypes == {"teaser", "key-points", "tldr", "headline", "other"}

\* What Summarizer.availability() may report; a Summarizer that is missing or
\* whose availability() throws counts as unavailable
Availabilities == {"available", "downloadable", "downloading", "unavailable"}

\* The markdown texts an API may answer with
Markdowns == {"", "md"}

\* customPrompt.trim(), for the prompts tried
TrimPrompt(text) == IF text = " " THEN "" ELSE text

\* determineApi(customPrompt)
determineApi_Always(customPrompt) == "summarizer"

determineApi(customPrompt) ==
  IF customPrompt # "" /\ TrimPrompt(customPrompt) # "" THEN "prompt"
  ELSE "summarizer"

\* The function of summarizer.js the switch on summaryType calls
SummarizerFunction(summaryType) ==
  CASE summaryType = "teaser" -> "generateTeaser"
    [] summaryType = "key-points" -> "generateKeyPoints"
    [] summaryType = "tldr" -> "generateTLDR"
    [] summaryType = "headline" -> "generateHeadline"
    [] OTHER -> "generateSummarizerSummary"

SummarizerFunctions == { SummarizerFunction(t) : t \in SummaryTypes }

\* customPrompt || `Generate a ${summaryType} summary`
FallbackPrompt(customPrompt, summaryType) ==
  IF customPrompt # "" THEN customPrompt
  ELSE "Generate a " \o summaryType \o " summary"

\* DOMPurify.sanitize(marked.parse(summaryMarkdown))
SanitizedHtml(summaryMarkdown) ==
  IF summaryMarkdown = "" THEN <<>> ELSE <<"p", summaryMarkdown>>

\* generateSummary(params) up to its first await
generateSummary ==
  /\ summaryCall.pc \in {"idle", "returned", "thrown"}
  /\ \E customPrompt \in CustomPrompts, summaryType \in SummaryTypes :
       LET apiToUse == determineApi(customPrompt) IN
       summaryCall' =
         [NoSummaryCall EXCEPT
            !.customPrompt = customPrompt,
            !.summaryType = summaryType,
            !.apiToUse = apiToUse,
            !.pc = IF apiToUse = "summarizer" THEN "availability"
                   ELSE "prompt",
            !.calls = IF apiToUse = "summarizer" THEN <<>>
                      ELSE <<"generateAISummary">>,
            !.prompt = IF apiToUse = "summarizer" THEN "" ELSE customPrompt]
  /\ UNCHANGED <<smartCall, outsideSummary>>

\* await isSummarizerAvailable() resolves
AvailabilityChecked ==
  /\ summaryCall.pc = "availability"
  /\ \E availability \in Availabilities :
       summaryCall' =
         IF availability = "available"
         THEN [summaryCall EXCEPT
                 !.available = availability,
                 !.pc = "summarizer",
                 !.calls = Append(@, SummarizerFunction(summaryCall.summaryType))]
         ELSE [summaryCall EXCEPT
                 !.available = availability,
                 !.pc = "prompt",
                 !.calls = Append(@, "generateAISummary"),
                 !.prompt = FallbackPrompt(summaryCall.customPrompt,
                                           summaryCall.summaryType)]
  /\ UNCHANGED <<smartCall, outsideSummary>>

\* The end of generateSummary: markdown to sanitized html
Returned(by, summaryMarkdown) ==
  [kind |-> "summary", by |-> by, markdown |-> summaryMarkdown,
   html |-> SanitizedHtml(summaryMarkdown), apiUsed |-> summaryCall.apiToUse]

\* The Summarizer API function resolves
SummarizerAnswered ==
  /\ summaryCall.pc = "summarizer"
  /\ \E summaryMarkdown \in Markdowns :
       summaryCall' = [summaryCall EXCEPT
                         !.pc = "returned",
                         !.outcome = Returned("Summarizer", summaryMarkdown)]
  /\ UNCHANGED <<smartCall, outsideSummary>>

\* The Summarizer API function rejects: the catch falls back to the Prompt API
SummarizerFailed ==
  /\ summaryCall.pc = "summarizer"
  /\ summaryCall' = [summaryCall EXCEPT
                       !.pc = "prompt",
                       !.calls = Append(@, "generateAISummary"),
                       !.prompt = FallbackPrompt(summaryCall.customPrompt,
                                                 summaryCall.summaryType)]
  /\ UNCHANGED <<smartCall, outsideSummary>>

\* generateAISummary resolves
PromptAnswered ==
  /\ summaryCall.pc = "prompt"
  /\ \E summaryMarkdown \in Markdowns :
       summaryCall' = [summaryCall EXCEPT
                         !.pc = "returned",
                         !.outcome = Returned("Prompt", summaryMarkdown)]
  /\ UNCHANGED <<smartCall, outsideSummary>>

\* generateAISummary rejects, and so does generateSummary
PromptFailed ==
  /\ summaryCall.pc = "prompt"
  /\ summaryCall' = [summaryCall EXCEPT
                       !.pc = "thrown",
                       !.outcome = [kind |-> "error", by |-> "Prompt"]]
  /\ UNCHANGED <<smartCall, outsideSummary>>

\* options.length as smartSummarize may be given it: none, or a length
RequestedLengths == {"", "short", "medium", "long"}

\* What may be thrown inside the wrapper's try block: by the Summarizer API
\* when the input exceeds the quota or for another reason, and by the wrapper
\* itself when the API is unavailable or the model is still to be downloaded
SummarizerErrors ==
  { [name |-> "QuotaExceededError", message |-> "quota"],
    [name |-> "NotSupportedError", message |-> "unsupported"],
    [name |-> "Error", message |-> "Summarizer API is not available"] }

\* The catch of summarizer.js generateSummary: a QuotaExceededError is
\* replaced by new Error(...), anything else is thrown again
Rethrown(error) ==
  IF error.name = "QuotaExceededError"
  THEN [name |-> "Error", message |-> "Content is too long for summarization"]
  ELSE error

\* [requestedLength, ...lengths.filter(l => l !== requestedLength)]
LengthsToTry(requestedLength) ==
  LET lengths == <<"short", "medium", "long">>
      Other(l) == l # requestedLength
  IN <<requestedLength>> \o SelectSeq(lengths, Other)

\* smartSummarize(text, options) up to the first await generateSummary(...)
smartSummarize ==
  /\ smartCall.pc \in {"idle", "returned", "thrown"}
  /\ \E length \in RequestedLengths :
       LET requestedLength == IF length = "" THEN "medium" ELSE length IN
       smartCall' = [NoSmartCall EXCEPT
                       !.pc = "awaiting",
                       !.requestedLength = requestedLength,
                       !.lengthsToTry = LengthsToTry(requestedLength),
                       !.tried = 1]
  /\ UNCHANGED <<summaryCall, outsideSummary>>

\* await generateSummary(text, {...options, length}) resolves
SmartAnswered ==
  /\ smartCall.pc = "awaiting"
  /\ \E summary \in Markdowns :
       LET length == smartCall.lengthsToTry[smartCall.tried] IN
       smartCall' = [smartCall EXCEPT
                       !.pc = "returned",
                       !.outcome = [kind |-> "result", success |-> TRUE,
                                    summary |-> summary, length |-> length,
                                    adjustedLength |->
                                      length # smartCall.requestedLength]]
  /\ UNCHANGED <<summaryCall, outsideSummary>>

\* await generateSummary(...) rejects with what the wrapper throws; the
\* catch of smartSummarize goes on to the next length or throws the error
SmartFailed ==
  /\ smartCall.pc = "awaiting"
  /\ \E raised \in SummarizerErrors :
       LET error == Rethrown(raised)
           length == smartCall.lengthsToTry[smartCall.tried]
       IN smartCall' =
            IF error.name = "QuotaExceededError" /\ length # "short"
            THEN IF smartCall.tried < Len(smartCall.lengthsToTry)
                 THEN [smartCall EXCEPT !.tried = @ + 1,
                                        !.errors = Append(@, raised.name)]
                 ELSE [smartCall EXCEPT
                         !.pc = "thrown",
                         !.errors = Append(@, raised.name),
                         !.outcome = [kind |-> "error", name |-> "Error",
                                      message |-> "Unable to generate summary"]]
            ELSE [smartCall EXCEPT
                    !.pc = "thrown",
                    !.errors = Append(@, raised.name),
                    !.outcome = [kind |-> "error", name |-> error.name,
                                 message |-> error.message]]
  /\ UNCHANGED <<summaryCall, outsideSummary>>

\* The summary service on its own
SummaryInit ==
  /\ PanelInit

SummaryNext ==
  \/ generateSummary
  \/ AvailabilityChecked
  \/ SummarizerAnswered
  \/ SummarizerFailed
  \/ PromptAnswered
  \/ PromptFailed
  \/ smartSummarize
  \/ SmartAnswered
  \/ SmartFailed

SummarySpec == SummaryInit /\ [][SummaryNext]_vars

(***************************************************************************)
(* The storage utility: the saved cards in chrome.storage.local            *)
(***************************************************************************)

\* The titles of the cards saved
Titles == {"a", "b"}

\* The ids a delete may be given: the newest card's, the oldest card's, and
\* one no card has
DeleteIds(cards) ==
  {0} \cup (IF cards = <<>> THEN {} ELSE {cards[1].id, cards[Len(cards)].id})

\* [cardData, ...existingCards].slice(0, MAX_SAVED_CARDS)
LimitedCards(cardData, existingCards) ==
  LET updatedCards == <<cardData>> \o existingCards IN
  SubSeq(updatedCards, 1, IF Len(updatedCards) < MAX_SAVED_CARDS
                          THEN Len(updatedCards) ELSE MAX_SAVED_CARDS)

\* cards.filter(card => card.id !== cardId)
WithoutCard(cards, cardId) ==
  LET Other(card) == card.id # cardId IN SelectSeq(cards, Other)

\* saveSummaryCard(card) up to await getSavedCards(): the id is the time of
\* the call, which may be the millisecond of the call before
saveSummaryCard(slot) ==
  /\ storageCalls[slot].op = "none"
  /\ started < MaxStarted
  /\ started' = started + 1
  /\ \E title \in Titles, tick \in {0, 1} :
       /\ now + tick <= MAX_SAVED_CARDS + 1 + MaxTicks
       /\ now' = now + tick
       /\ storageCalls' =
            [storageCalls EXCEPT ![slot] =
               [NoStorageCall EXCEPT
                  !.op = "save", !.pc = "get",
                  !.cardData = [kind |-> "card", id |-> now + tick, title |-> title]]]
  /\ UNCHANGED storage
  /\ UNCHANGED outsideStorage

\* deleteSavedCard(cardId) up to await getSavedCards()
deleteSavedCard(slot) ==
  /\ storageCalls[slot].op = "none"
  /\ started < MaxStarted
  /\ started' = started + 1
  /\ \E cardId \in DeleteIds(storage) :
       storageCalls' =
         [storageCalls EXCEPT ![slot] =
            [NoStorageCall EXCEPT !.op = "delete", !.pc = "get", !.cardId = cardId]]
  /\ UNCHANGED <<storage, now>>
  /\ UNCHANGED outsideStorage

\* clearAllSavedCards() up to await chrome.storage.local.set(...)
clearAllSavedCards(slot) ==
  /\ storageCalls[slot].op = "none"
  /\ started < MaxStarted
  /\ started' = started + 1
  /\ storageCalls' =
       [storageCalls EXCEPT ![slot] =
          [NoStorageCall EXCEPT !.op = "clear", !.pc = "set"]]
  /\ UNCHANGED <<storage, now>>
  /\ UNCHANGED outsideStorage

\* await getSavedCards() returns: the stored list, or [] when
\* chrome.storage.local.get rejected; the list to store is computed
CardsRead(slot) ==
  /\ storageCalls[slot].pc = "get"
  /\ \E rejected \in BOOLEAN :
       LET call == storageCalls[slot]
           cards == IF rejected THEN <<>> ELSE storage
       IN storageCalls' =
            [storageCalls EXCEPT ![slot] =
               [call EXCEPT
                  !.pc = "set",
                  !.readFailed = rejected,
                  !.cards = IF call.op = "save"
                            THEN LimitedCards(call.cardData, cards)
                            ELSE WithoutCard(cards, call.cardId)]]
  /\ UNCHANGED <<storage, now, started>>
  /\ UNCHANGED outsideStorage

\* await chrome.storage.local.set(...) returns, and so does the call
CardsWritten(slot) ==
  /\ storageCalls[slot].pc = "set"
  /\ storage' = storageCalls[slot].cards
  /\ storageCalls' = [storageCalls EXCEPT ![slot] = NoStorageCall]
  /\ UNCHANGED <<now, started>>
  /\ UNCHANGED outsideStorage

\* chrome.storage.local.set rejects: the call throws, nothing is stored
WriteFailed(slot) ==
  /\ storageCalls[slot].pc = "set"
  /\ storageCalls' = [storageCalls EXCEPT ![slot] = NoStorageCall]
  /\ UNCHANGED <<storage, now, started>>
  /\ UNCHANGED outsideStorage

\* The storage utility on its own, over a card list saved before: empty, one
\* card, one card short of the limit, full
StorageInit ==
  /\ ExtractorNotInjected
  /\ SidePanelLoaded
  /\ summaryCall = NoSummaryCall
  /\ smartCall = NoSmartCall
  /\ \E n \in {0, 1, MAX_SAVED_CARDS - 1, MAX_SAVED_CARDS} :
       storage = Stored(n)
  /\ now = MAX_SAVED_CARDS + 1
  /\ storageCalls = [slot \in 1..MaxCalls |-> NoStorageCall]
  /\ started = 0
  /\ AiLoaded
  /\ StatusInitialized

NoCallInFlight == \A slot \in 1..MaxCalls : storageCalls[slot].op = "none"

StorageNext ==
  \E slot \in 1..MaxCalls :
    \/ saveSummaryCard(slot)
    \/ deleteSavedCard(slot)
    \/ clearAllSavedCards(slot)
    \/ CardsRead(slot)
    \/ CardsWritten(slot)
    \/ WriteFailed(slot)

\* Calls that may overlap
StorageSpec == StorageInit /\ [][StorageNext]_vars

\* Calls made one after the other: a call starts when none is in flight
SequentialStorageNext ==
  \E slot \in 1..MaxCalls :
    \/ NoCallInFlight /\ saveSummaryCard(slot)
    \/ NoCallInFlight /\ deleteSavedCard(slot)
    \/ NoCallInFlight /\ clearAllSavedCards(slot)
    \/ CardsRead(slot)
    \/ CardsWritten(slot)
    \/ WriteFailed(slot)

SequentialStorageSpec == StorageInit /\ [][SequentialStorageNext]_vars

(***************************************************************************)
(* The Prompt API session of api/ai.js                                     *)
(***************************************************************************)

\* getSession's sessionParams: params.temperature || CONFIG.DEFAULT_TEMPERATURE
sessionParams(params) ==
  [temperature |-> IF params.temperature = 0 THEN DEFAULT_TEMPERATURE
                   ELSE params.temperature,
   topK |-> IF params.topK = 0 THEN DEFAULT_TOP_K ELSE params.topK]

\* The session LanguageModel.create(sessionParams) resolves to
Session(params) ==
  [kind |-> "session", temperature |-> params.temperature, topK |-> params.topK]

\* generateText(prompt, params) with the sliders' values, up to the first
\* await that waits: getSession returns the cached session, or calls
\* LanguageModel.create when none is cached
generateText(slot) ==
  /\ aiCalls[slot].pc = "idle"
  /\ IF session.kind # "null"
     THEN /\ aiCalls' = [aiCalls EXCEPT ![slot] =
                           [NoAiCall EXCEPT !.pc = "prompt", !.aiSession = session]]
          /\ UNCHANGED creates
     ELSE /\ aiCalls' = [aiCalls EXCEPT ![slot] =
                           [NoAiCall EXCEPT !.pc = "create", !.params = settings]]
          /\ creates' = creates + 1
  /\ UNCHANGED <<session, settings>>
  /\ UNCHANGED outsideAi

\* session = await LanguageModel.create(sessionParams); return session
SessionCreated(slot) ==
  /\ aiCalls[slot].pc = "create"
  /\ session' = Session(sessionParams(aiCalls[slot].params))
  /\ aiCalls' = [aiCalls EXCEPT ![slot] =
                   [NoAiCall EXCEPT !.pc = "prompt", !.aiSession = session']]
  /\ UNCHANGED <<settings, creates>>
  /\ UNCHANGED outsideAi

\* LanguageModel.create rejects: generateText's catch calls resetSession()
SessionFailed(slot) ==
  /\ aiCalls[slot].pc = "create"
  /\ resetSession
  /\ aiCalls' = [aiCalls EXCEPT ![slot] = NoAiCall]
  /\ UNCHANGED settings
  /\ UNCHANGED outsideAi

\* await aiSession.prompt(prompt) returns the text
TextGenerated(slot) ==
  /\ aiCalls[slot].pc = "prompt"
  /\ aiCalls' = [aiCalls EXCEPT ![slot] = NoAiCall]
  /\ UNCHANGED <<session, settings, creates>>
  /\ UNCHANGED outsideAi

\* aiSession.prompt rejects: generateText's catch calls resetSession()
GenerationFailed(slot) ==
  /\ aiCalls[slot].pc = "prompt"
  /\ resetSession
  /\ aiCalls' = [aiCalls EXCEPT ![slot] = NoAiCall]
  /\ UNCHANGED settings
  /\ UNCHANGED outsideAi

\* The input listener of the temperature or the top-K slider: the slider has
\* its new value, resetState()
SliderInput ==
  /\ \E value \in Settings :
       /\ value # settings
       /\ value.temperature = settings.temperature \/ value.topK = settings.topK
       /\ settings' = value
  /\ state' = StateAfterReset
  /\ shown' = NothingShown
  /\ resetSession
  /\ UNCHANGED <<elements, generation, translation>>
  /\ UNCHANGED aiCalls
  /\ UNCHANGED outsidePanelAndAi

AiInit == PanelInit

AiNext ==
  \/ SliderInput
  \/ \E slot \in 1..MaxAiCalls :
       \/ generateText(slot)
       \/ SessionCreated(slot)
       \/ SessionFailed(slot)
       \/ TextGenerated(slot)
       \/ GenerationFailed(slot)

AiSpec == AiInit /\ [][AiNext]_vars

(***************************************************************************)
(* The status messages of ui/status.js                                     *)
(***************************************************************************)

\* STATUS_MESSAGES and error messages the side panel shows
Messages == {"Generating AI summary...", "Summary card generated successfully!"}

\* setText(element, message); show(element); with autohideMs > 0 a timeout
\* that will hide the element. call numbers the showStatus and showError calls
Shown(message, call) == [text |-> message, visible |-> TRUE, call |-> call]

\* showStatus(message, autohideMs)
showStatus ==
  /\ shows < MaxShows
  /\ shows' = shows + 1
  /\ \E message \in Messages, autohide \in BOOLEAN :
       /\ statusElement' = Shown(message, shows + 1)
       /\ hideTimers' = IF autohide
                        THEN hideTimers \cup {[element |-> "status", call |-> shows + 1]}
                        ELSE hideTimers
  /\ UNCHANGED <<errorElement, loadingElement>>
  /\ UNCHANGED outsideStatus

\* showError(message, autohideMs)
showError ==
  /\ shows < MaxShows
  /\ shows' = shows + 1
  /\ \E message \in Messages, autohide \in BOOLEAN :
       /\ errorElement' = Shown(message, shows + 1)
       /\ hideTimers' = IF autohide
                        THEN hideTimers \cup {[element |-> "error", call |-> shows + 1]}
                        ELSE hideTimers
  /\ UNCHANGED <<statusElement, loadingElement>>
  /\ UNCHANGED outsideStatus

\* hideStatus()
hideStatus ==
  /\ statusElement' = [statusElement EXCEPT !.visible = FALSE]
  /\ UNCHANGED <<errorElement, loadingElement, hideTimers, shows>>
  /\ UNCHANGED outsideStatus

\* hideError()
hideError ==
  /\ errorElement' = [errorElement EXCEPT !.visible = FALSE]
  /\ UNCHANGED <<statusElement, loadingElement, hideTimers, shows>>
  /\ UNCHANGED outsideStatus

\* showLoading()
showLoading ==
  /\ loadingElement' = TRUE
  /\ UNCHANGED <<statusElement, errorElement, hideTimers, shows>>
  /\ UNCHANGED outsideStatus

\* hideLoading()
hideLoading ==
  /\ loadingElement' = FALSE
  /\ UNCHANGED <<statusElement, errorElement, hideTimers, shows>>
  /\ UNCHANGED outsideStatus

\* hideAll(): hideStatus(); hideLoading(); hideError()
hideAll ==
  /\ statusElement' = [statusElement EXCEPT !.visible = FALSE]
  /\ loadingElement' = FALSE
  /\ errorElement' = [errorElement EXCEPT !.visible = FALSE]
  /\ UNCHANGED <<hideTimers, shows>>
  /\ UNCHANGED outsideStatus

\* An auto-hide timeout fires: () => hide(statusElement), () => hide(errorElement)
HideTimerFires(hideTimer) ==
  /\ hideTimer \in hideTimers
  /\ hideTimers' = hideTimers \ {hideTimer}
  /\ IF hideTimer.element = "status"
     THEN /\ statusElement' = [statusElement EXCEPT !.visible = FALSE]
          /\ UNCHANGED errorElement
     ELSE /\ errorElement' = [errorElement EXCEPT !.visible = FALSE]
          /\ UNCHANGED statusElement
  /\ UNCHANGED <<loadingElement, shows>>
  /\ UNCHANGED outsideStatus

StatusInit == PanelInit

StatusNext ==
  \/ showStatus
  \/ showError
  \/ hideStatus
  \/ hideError
  \/ showLoading
  \/ hideLoading
  \/ hideAll
  \/ \E hideTimer \in [element : {"status", "error"}, call : 1..MaxShows] :
       HideTimerFires(hideTimer)

StatusSpec == StatusInit /\ [][StatusNext]_vars

(***************************************************************************)
(* Properties                                                              *)
(***************************************************************************)

Min(S) == CHOOSE k \in S : \A m \in S : k <= m

\* A phase-1 candidate that is no noise and passes the quality gates
Qualifies(nodes, e) == ~isNoiseElement(nodes, e) /\ PassesSemanticGates(nodes, e)

\* The selectors some element of the document matches and qualifies for
SelectorsWithQualifyingMatch(nodes) ==
  {k \in 1..Len(mainSelectors) :
     \E e \in 1..Len(nodes) : Matches(nodes, e, mainSelectors[k]) /\ Qualifies(nodes, e)}

\* The selectors whose first match in document order qualifies
SelectorsWithQualifyingFirstMatch(nodes) ==
  {k \in 1..Len(mainSelectors) :
     LET e == QuerySelector(nodes, mainSelectors[k]) IN e # 0 /\ Qualifies(nodes, e)}

\* C1 as stated: when some element matches a phase-1 selector, is no noise and
\* passes the gates, findMainContent returns an element, and it is a qualifying
\* match of the earliest selector that has a qualifying match.
C1_AnyQualifyingMatchWins ==
  pc = "extract" =>
    LET Q == SelectorsWithQualifyingMatch(doc.nodes) IN
    Q # {} => /\ mainElement # 0
              /\ Matches(doc.nodes, mainElement, mainSelectors[Min(Q)])
              /\ Qualifies(doc.nodes, mainElement)

\* C1 amended: when, for some phase-1 selector, the first element in document
\* order that matches it is no noise and passes the gates, findMainContent
\* returns the first match of the earliest such selector.
C1_EarliestQualifyingFirstMatch ==
  pc = "extract" =>
    LET Q == SelectorsWithQualifyingFirstMatch(doc.nodes) IN
    Q # {} => mainElement = QuerySelector(doc.nodes, mainSelectors[Min(Q)])

\* C1 witness: two selectors' first matches qualify, on different elements,
\* and the element of the earlier selector was returned.
C1_Witness ==
  /\ pc = "extract"
  /\ LET Q == SelectorsWithQualifyingFirstMatch(doc.nodes) IN
     /\ \E k, m \in Q : QuerySelector(doc.nodes, mainSelectors[k])
                          # QuerySelector(doc.nodes, mainSelectors[m])
     /\ mainElement = QuerySelector(doc.nodes, mainSelectors[Min(Q)])

\* The containers strategy 2 scores, when strategy 1 found nothing
ScoredInPhase2(nodes) ==
  IF SelectorsWithQualifyingFirstMatch(nodes) # {} THEN {}
  ELSE {c \in 1..Len(nodes) :
          /\ \E k \in 1..Len(Containers(nodes)) : Containers(nodes)[k] = c
          /\ Scored(nodes, c)}

\* C2: of two containers evaluated in phase 2, the one with the strictly
\* smaller composite score is never returned.
C2_LowerScoreNeverReturned ==
  pc = "extract" =>
    \A A, B \in ScoredInPhase2(doc.nodes) :
      FLess(Score(doc.nodes, B), Score(doc.nodes, A)) => mainElement # B

\* C2 witness: phase 2 scored two containers with different scores, the
\* better one coming later in the document, and returned it.
C2_Witness ==
  /\ pc = "extract"
  /\ \E A, B \in ScoredInPhase2(doc.nodes) :
       /\ B < A
       /\ FLess(Score(doc.nodes, B), Score(doc.nodes, A))
       /\ mainElement = A

\* C3: one extraction leaves every element, attribute and text of the live
\* document as it was.
C3_LiveDocumentUnchanged == [][doc' = doc]_vars

\* C4: the content of every result is at most 20,000 characters long.
C4_ContentCapped ==
  pc \in {"stats", "excerpt", "done"} => TLen(result.content) <= 20000

\* C4 witness: a container's structured text of more than 20,000 characters
\* was cut to the cap.
C4_Witness ==
  /\ pc = "done" /\ mainElement # 0
  /\ TLen(StructuredText(clone)) > 20000
  /\ TLen(result.content) = 20000

\* The number of maximal runs of non-white-space characters of a text
TokenCount(t) ==
  LET n == Norm(t) IN
  Cardinality({k \in 1..Len(n) :
                 ~IsSpace(n[k][1]) /\ (k = 1 \/ IsSpace(n[k - 1][1]))})

\* C5: wordCount is the number of non-empty white-space-delimited tokens of
\* the final content.
C5_WordCountOfFinalContent ==
  pc \in {"excerpt", "done"} => result.wordCount = TokenCount(result.content)

\* C5 witness: a result whose cleaned content has another number of tokens
\* than the extracted text it was cleaned from.
C5_Witness ==
  /\ pc = "done" /\ mainElement # 0
  /\ result.wordCount > 1
  /\ TokenCount(StructuredText(clone)) # result.wordCount

\* C6: the filtered clone of a chosen container holds no element, root
\* included, whose aria-hidden attribute is "true".
C6_NoAriaHiddenInClone ==
  \A j \in 1..Len(clone) : clone[j].ariaHidden # "true"

\* C6 witness: the chosen container had an aria-hidden descendant in the
\* document and its clone was filtered.
C6_Witness ==
  /\ pc = "done" /\ mainElement # 0 /\ clone # <<>>
  /\ \E j \in 1..Len(doc.nodes) :
       IsAncestor(doc.nodes, mainElement, j) /\ doc.nodes[j].ariaHidden = "true"

\* A container whose children are all paragraphs without children of their
\* own, each with at least 10 characters of direct text
OnlyParagraphs(nodes, e) ==
  /\ Children(nodes, e) # <<>>
  /\ nodes[e].text = <<>>
  /\ \A j \in 1..Len(nodes) : IsAncestor(nodes, e, j) =>
       /\ nodes[j].parent = e
       /\ nodes[j].tag = "p"
       /\ TLen(Trim(nodes[j].text)) >= 10

\* C7: a container of such paragraphs yields one block per paragraph, in
\* document order, separated by blank lines.
C7_OneBlockPerParagraph ==
  (pc = "clean" /\ mainElement # 0 /\ OnlyParagraphs(doc.nodes, mainElement)) =>
    LET kids == Children(doc.nodes, mainElement) IN
    result.content =
      Norm(Join([k \in 1..Len(kids) |-> Trim(doc.nodes[kids[k]].text)], Txt("\n", 2)))

\* The length of the text of element i that lies in anchors
AnchoredLength(nodes, i) ==
  LET InAnchor(j) == \/ nodes[j].tag = "a"
                     \/ \E a \in 1..Len(nodes) :
                          /\ nodes[a].tag = "a" /\ IsAncestor(nodes, i, a)
                          /\ IsAncestor(nodes, a, j)
  IN TLen(ConcatText(nodes, SelectSeq(Descendants(nodes, i), InAnchor)))

NoNestedAnchors(nodes) ==
  \A a, b \in 1..Len(nodes) :
    (nodes[a].tag = "a" /\ nodes[b].tag = "a") => ~IsAncestor(nodes, a, b)

\* C8 as stated: the link density the locator works with is anchor text over
\* total text, 1 for an element whose text is all anchor text, 0 for an
\* element without anchors.
C8_LinkDensityAsStated ==
  (pc = "extract" /\ NoNestedAnchors(doc.nodes)) =>
    \A i \in 1..Len(doc.nodes) :
      LET total == TLen(TextContent(doc.nodes, i))
          ld == calculateLinkDensity(doc.nodes, i)
      IN /\ ld[1] * total = AnchoredLength(doc.nodes, i) * ld[2]
         /\ (AnchoredLength(doc.nodes, i) = total => ld = <<1, 1>>)
         /\ (Anchors(doc.nodes, i) = <<>> => ld = <<0, 1>>)

\* C8 amended: for an element with text, link density is the text length of
\* its anchor descendants over its text length (1 when all its text is in
\* anchor descendants that are not nested, 0 when it has no anchor
\* descendant); for an element without text it is 1, anchors or not.
C8_LinkDensity ==
  (pc = "extract" /\ NoNestedAnchors(doc.nodes)) =>
    \A i \in 1..Len(doc.nodes) :
      LET total == TLen(TextContent(doc.nodes, i))
          ld == calculateLinkDensity(doc.nodes, i)
      IN IF total = 0 THEN ld = <<1, 1>>
         ELSE /\ ld[1] * total = AnchoredLength(doc.nodes, i) * ld[2]
              /\ (Anchors(doc.nodes, i) = <<>> => ld = <<0, 1>>)
              /\ (AnchoredLength(doc.nodes, i) = total => ld = <<1, 1>>)

\* C8 witness: the locator has run over a document with an element partly
\* made of anchor text and an element without text or anchors.
C8_Witness ==
  /\ pc = "extract"
  /\ \E i, j \in 1..Len(doc.nodes) :
       /\ calculateLinkDensity(doc.nodes, i) = <<4, 7>>
       /\ TLen(TextContent(doc.nodes, j)) = 0 /\ Anchors(doc.nodes, j) = <<>>
       /\ calculateLinkDensity(doc.nodes, j) = <<1, 1>>

\* A document whose only candidate container is a noise-flagged block of
\* pure link text (one visible anchor), which holds all the text the page shows
SidebarOnly(nodes) ==
  /\ Len(Containers(nodes)) = 1
  /\ LET c == Containers(nodes)[1] IN
     /\ isNoiseElement(nodes, c)
     /\ TLen(TextContent(nodes, c)) > 0
     /\ AnchoredLength(nodes, c) = TLen(TextContent(nodes, c))
     /\ Len(Children(nodes, c)) = 1
     /\ \A j \in 1..Len(nodes) :
          (j = c \/ IsAncestor(nodes, c, j)) => nodes[j].hide = "no"
     /\ \A j \in 1..Len(nodes) :
          (j # c /\ ~IsAncestor(nodes, c, j)) =>
            (nodes[j].text = <<>> \/ nodes[j].tag = "script")

\* C9 as stated: for such a document the locator returns no container, the
\* fallback is taken, and the content is not the sidebar's content.
C9_NotTheSidebarContent ==
  (pc = "done" /\ SidebarOnly(doc.nodes)) =>
    /\ mainElement = 0 /\ clone = <<>>
    /\ result.content # CleanText(TextContent(doc.nodes, Containers(doc.nodes)[1]))

\* C9 amended: for such a document the locator returns no container and the
\* whole-document fallback is taken; the content is the cleaned visible text
\* of the whole document, which is the sidebar's link text.
C9_FallbackToVisibleText ==
  (pc = "done" /\ SidebarOnly(doc.nodes)) =>
    /\ mainElement = 0 /\ clone = <<>>
    /\ result.content = CleanText(TextContent(doc.nodes, Containers(doc.nodes)[1]))

\* C9 witness: the extraction of the sidebar-only page is complete, with 500
\* characters of content.
C9_Witness ==
  /\ pc = "done" /\ SidebarOnly(doc.nodes)
  /\ TLen(result.content) = 500

\* The article-type JSON-LD objects of the document, as <<script, entry>>
ArticleObjects(d) ==
  {se \in (1..Len(d.jsonld)) \X (1..2) :
     /\ d.jsonld[se[1]].ok /\ se[2] <= Len(d.jsonld[se[1]].items)
     /\ d.jsonld[se[1]].items[se[2]].kind = "object"
     /\ d.jsonld[se[1]].items[se[2]].type \in ArticleTypes}

\* Those not preceded in their script block by a null entry
ReadableArticleObjects(d) ==
  {se \in ArticleObjects(d) :
     \A k \in 1..(se[2] - 1) : d.jsonld[se[1]].items[k].kind # "null"}

Before(a, b) == a[1] < b[1] \/ (a[1] = b[1] /\ a[2] < b[2])

\* C10 as stated: when the document holds an article-type JSON-LD object with
\* a non-empty headline, the title is that headline.
C10_AnyHeadlineWins ==
  pc = "done" =>
    LET H == {se \in ArticleObjects(doc) :
                doc.jsonld[se[1]].items[se[2]].headline # <<>>} IN
    H # {} => \E se \in H : result.title = doc.jsonld[se[1]].items[se[2]].headline

\* C10 amended: when the first article-type object the resolver can read (in
\* document order, a block being left at a null entry) has a non-empty
\* headline, the title is that headline, whatever og:title or h1 say.
C10_FirstHeadlineWins ==
  pc = "done" =>
    \A se \in ReadableArticleObjects(doc) :
      (/\ \A o \in ReadableArticleObjects(doc) : o = se \/ Before(se, o)
       /\ doc.jsonld[se[1]].items[se[2]].headline # <<>>)
      => result.title = doc.jsonld[se[1]].items[se[2]].headline

\* C10 witness: a NewsArticle headline won over an og:title and an h1.
C10_Witness ==
  /\ pc = "done"
  /\ doc.meta["og:title"] # <<>>
  /\ \E j \in 1..Len(doc.nodes) : doc.nodes[j].tag = "h1"
  /\ result.structuredData.kind = "object"
  /\ result.structuredData.headline # <<>>
  /\ result.title = result.structuredData.headline

\* The score of an image: pixel area, plus the bonus for a preferred class
AreaAndBonus(nodes, j) ==
  nodes[j].width * nodes[j].height
    + (IF HasPreferredClass(nodes, j) THEN 1000 ELSE 0)

EligibleImages(nodes) == {j \in 1..Len(nodes) : EligibleImage(nodes, j)}

\* Neither the structured data nor the meta tags supply an image
NoImageMetadata(d) ==
  /\ LET sd == extractStructuredData(d) IN
     sd.kind = "null" \/ StructuredImage(sd, <<>>) = <<>>
  /\ ImageFallbacks(d) = <<>>

\* C11: without an image from structured data or meta tags, the image is the
\* src of the eligible img with the greatest score (area plus bonus), the
\* first in document order among those of equal score, wherever it stands.
C11_BestImageSelected ==
  (pc = "locate" /\ NoImageMetadata(doc)) =>
    \A j \in EligibleImages(doc.nodes) :
      (\A k \in EligibleImages(doc.nodes) :
         \/ AreaAndBonus(doc.nodes, k) < AreaAndBonus(doc.nodes, j)
         \/ (AreaAndBonus(doc.nodes, k) = AreaAndBonus(doc.nodes, j) /\ j <= k))
      => result.image = ToText(doc.nodes[j].src)

\* C11 witness: an excluded image comes first, the selected image won by its
\* bonus over a larger one, and stands after an eligible image.
C11_Witness ==
  /\ pc = "locate" /\ NoImageMetadata(doc)
  /\ doc.nodes # <<>>
  /\ doc.nodes[1].tag = "img" /\ ~EligibleImage(doc.nodes, 1)
  /\ \E j, k \in EligibleImages(doc.nodes) :
       /\ k < j
       /\ doc.nodes[k].width * doc.nodes[k].height
            > doc.nodes[j].width * doc.nodes[j].height
       /\ result.image = ToText(doc.nodes[j].src)

RECURSIVE CharAt(_, _)
\* The character at position p (from 1) of a text
CharAt(t, p) ==
  IF t[1][2] >= p THEN t[1][1] ELSE CharAt(Tail(t), p - t[1][2])

\* Cutting the text after p characters splits a token
MidToken(t, p) ==
  /\ 1 <= p /\ p < TLen(t)
  /\ ~IsSpace(CharAt(t, p)) /\ ~IsSpace(CharAt(t, p + 1))

\* C12: for non-empty content, the generated excerpt is a prefix of at most
\* 300 characters of the content followed by "...", and the prefix does not
\* end in the middle of a token.
C12_ExcerptEndsAtWordBoundary ==
  (pc = "done" /\ result.content # <<>>) =>
    \E p \in 0..300 :
      /\ result.excerpt = Norm(Substring0(result.content, p) \o Txt(".", 3))
      /\ ~MidToken(result.content, p)

\* The visible text of the whole document, else all its text
WholeDocumentText(nodes) ==
  IF InnerText(nodes, 0) # <<>> THEN InnerText(nodes, 0) ELSE TextContent(nodes, 0)

\* The record returned has every field, and statistics of its content
CompleteRecord ==
  /\ DOMAIN result = DOMAIN EmptyResult
  /\ result.wordCount = TokenCount(result.content)
  /\ (result.content # <<>> => result.excerpt # <<>>)

\* C13 as stated: when the locator found no container, or the final content
\* is shorter than the minimum content length, the content is the
\* post-processed visible text of the whole document and a complete record is
\* returned.
C13_ShortContentIsWholeDocumentText ==
  (pc = "done" /\ (mainElement = 0 \/ TLen(result.content) < 300)) =>
    /\ result.content = CleanText(WholeDocumentText(doc.nodes))
    /\ CompleteRecord

\* C13 amended: when the locator found no container, the content is the
\* post-processed visible text of the whole document; then, and also when
\* the final content is shorter than the minimum content length (whichever
\* path produced it), a complete record is returned.
C13_FallbackAndCompleteRecord ==
  (pc = "done" /\ (mainElement = 0 \/ TLen(result.content) < 300)) =>
    /\ mainElement = 0 => result.content = CleanText(WholeDocumentText(doc.nodes))
    /\ CompleteRecord

\* C13 witness: a record was returned with content from the whole-document
\* fallback that is shorter than the minimum content length, on a page that
\* has text.
C13_Witness ==
  /\ pc = "done" /\ mainElement = 0
  /\ result.content # <<>> /\ TLen(result.content) < 300
  /\ result.content = CleanText(WholeDocumentText(doc.nodes))

\* The script blocks that parse and hold an article-type object the
\* resolver can read
UsableBlocks(d) == {se[1] : se \in ReadableArticleObjects(d)}

\* C14: a JSON-LD block that does not parse, or holds no usable object, is
\* skipped: the first article-type object of the first usable block is the
\* structured data whatever blocks precede it, and when no block is usable
\* the structured data is null and the fields come from the meta tag and DOM
\* tier.
C14_UnusableBlocksSkipped ==
  pc = "done" =>
    IF UsableBlocks(doc) # {}
    THEN LET k == Min(UsableBlocks(doc))
             e == Min({se[2] : se \in {o \in ReadableArticleObjects(doc) : o[1] = k}})
         IN result.structuredData = doc.jsonld[k].items[e]
    ELSE /\ result.structuredData = NullItem
         /\ result.title = TitleFallbacks(doc)
         /\ result.description = DescriptionFallbacks(doc)
         /\ result.author = AuthorFallbacks(doc)
         /\ result.publishDate = DateFallbacks(doc)
         /\ result.modifiedDate = ModifiedFallbacks(doc)

\* C14 witness: a block that does not parse came first and the article of the
\* block after it was used.
C14_Witness ==
  /\ pc = "done"
  /\ Len(doc.jsonld) = 2
  /\ ~doc.jsonld[1].ok
  /\ 2 \in UsableBlocks(doc)
  /\ result.structuredData = doc.jsonld[2].items[1]
  /\ result.title = doc.jsonld[2].items[1].headline

\* C15: after a card was generated and then translated one or more times,
\* Restore Original puts back the summary and the title the card had before
\* the first translation and clears the translated flag.
C15_RestoreRevertsCard ==
  [][(/\ handleRestoreOriginal
      /\ shown.since = "translated"
      /\ translation.pc = "idle") =>
       /\ elements'.cardSummary = shown.summary
       /\ elements'.cardTitle = shown.title
       /\ ~state'.isTranslated]_vars

\* C16: with no custom prompt, once the Summarizer API was not reported
\* available or its call failed, the Prompt API is called and a summary that
\* is returned is the Prompt API's; the call fails only when the Prompt API
\* call fails.  With a non-blank custom prompt no Summarizer API function is
\* called.
SummarizerGaveUp ==
  \/ summaryCall.available \notin {"", "available"}
  \/ /\ summaryCall.available = "available"
     /\ summaryCall.pc \in {"prompt", "returned", "thrown"}
     /\ summaryCall.outcome.kind # "summary" \/ summaryCall.outcome.by # "Summarizer"

SummarizerCalled ==
  \E k \in 1..Len(summaryCall.calls) : summaryCall.calls[k] \in SummarizerFunctions

C16_FallsBackToPromptApi ==
  /\ (TrimPrompt(summaryCall.customPrompt) = "" /\ SummarizerGaveUp) =>
       /\ summaryCall.calls # <<>>
       /\ summaryCall.calls[Len(summaryCall.calls)] = "generateAISummary"
       /\ summaryCall.pc = "returned" => summaryCall.outcome.by = "Prompt"
  /\ summaryCall.pc = "thrown" =>
       /\ summaryCall.calls[Len(summaryCall.calls)] = "generateAISummary"
       /\ summaryCall.outcome.by = "Prompt"
  /\ TrimPrompt(summaryCall.customPrompt) # "" => ~SummarizerCalled

C16_Witness ==
  /\ summaryCall.customPrompt = ""
  /\ summaryCall.calls = <<"generateTLDR", "generateAISummary">>
  /\ summaryCall.pc = "returned"
  /\ summaryCall.outcome.by = "Prompt"

\* A phase-1 candidate accepted by the gates as they are stated: no noise, at
\* least the minimum length of visible text, link density below the maximum,
\* content density above the minimum
AcceptedAsStated(nodes, e) ==
  /\ ~isNoiseElement(nodes, e)
  /\ TLen(InnerText(nodes, e)) >= MIN_CONTENT_LENGTH
  /\ FLess(calculateLinkDensity(nodes, e), MAX_LINK_DENSITY)
  /\ FLess(MIN_CONTENT_DENSITY, calculateContentDensity(nodes, e))

SelectorsAcceptedAsStated(nodes) ==
  {k \in 1..Len(mainSelectors) :
     LET e == QuerySelector(nodes, mainSelectors[k]) IN
     e # 0 /\ AcceptedAsStated(nodes, e)}

\* C17: a phase-1 candidate that is no noise is accepted exactly when its
\* visible text has at least 300 characters, its link density is below 0.5
\* and its content density is above 0.3: the first candidate of that kind is
\* returned, and phase 2 runs only when there is none.
C17_AcceptedFromMinimumLength ==
  pc = "extract" =>
    LET Q == SelectorsAcceptedAsStated(doc.nodes) IN
    IF Q # {}
    THEN mainElement = QuerySelector(doc.nodes, mainSelectors[Min(Q)])
    ELSE mainElement = ScoringFrom(doc.nodes, Containers(doc.nodes), 0, FInt(0))

\* The link-density and content-density gates of phase 1
PassesDensityGates(nodes, e) ==
  /\ FLess(calculateLinkDensity(nodes, e), MAX_LINK_DENSITY)
  /\ FLess(MIN_CONTENT_DENSITY, calculateContentDensity(nodes, e))

\* C18: phase 2 skips a container for its densities exactly when phase 1's
\* gates reject it (link density not below 0.5, or content density not above
\* 0.3), so the container phase 2 returns passes phase 1's density gates.
C18_SameDensityGates ==
  (pc = "extract" /\ SemanticFrom(doc.nodes, 1) = 0) =>
    /\ \A k \in 1..Len(Containers(doc.nodes)) :
         LET c == Containers(doc.nodes)[k] IN
         (/\ ~isNoiseElement(doc.nodes, c)
          /\ TLen(InnerText(doc.nodes, c)) >= MIN_CONTENT_LENGTH) =>
           (Scored(doc.nodes, c) <=> PassesDensityGates(doc.nodes, c))
    /\ mainElement # 0 => PassesDensityGates(doc.nodes, mainElement)

\* The containers of phase 2 with the maximum score
TopScored(nodes) ==
  {c \in ScoredInPhase2(nodes) :
     \A d \in ScoredInPhase2(nodes) : ~FLess(Score(nodes, c), Score(nodes, d))}

NoiseByAttribute(nodes, i) ==
  LET className == ToLowerCase(nodes[i].cls)
      id == ToLowerCase(nodes[i].id)
      role == ToLowerCase(nodes[i].role)
  IN \/ \E k \in 1..Len(noisePatterns) :
          \/ Includes(className, noisePatterns[k])
          \/ Includes(id, noisePatterns[k])
          \/ Includes(role, noisePatterns[k])
     \/ nodes[i].ariaHidden = "true"

\* The noise patterns the removal list has a class-substring selector for
PatternsRemovedByClass ==
  { <<"s","i","d","e","b","a","r">>, <<"c","o","m","m","e","n","t">>,
    <<"s","o","c","i","a","l">>, <<"s","h","a","r","e">>,
    <<"r","e","l","a","t","e","d">>, <<"r","e","c","o","m","m","e","n","d">>,
    <<"p","o","p","u","p">>, <<"m","o","d","a","l">>,
    <<"n","e","w","s","l","e","t","t","e","r">>,
    <<"s","u","b","s","c","r","i","b","e">> }

WaitInOrder ==
  /\ scrolls = SubSeq(<<"bottom", "middle", "top">>, 1, Len(scrolls))
  /\ Len(scrolls) <= 3
  /\ timer <=> Len(scrolls) \in {1, 2}
  /\ resolved => scrolls = <<"bottom", "middle", "top">>
  /\ pc \notin {"start", "waiting"} => resolved
  /\ ~resolved => result = EmptyResult /\ mainElement = 0 /\ clone = <<>>

\* C21: waitForDynamicContent scrolls three times, to the bottom, the middle
\* and the top, with one timeout between consecutive scrolls; it completes
\* only after the scroll to the top and sets no timeout afterwards, it always
\* completes, and no scanning starts before.
C21_ScrollsThenScans == []WaitInOrder /\ <>resolved

\* C21 witness: the wait is over after the three scrolls and the scan of the
\* metadata has begun.
C21_Witness ==
  /\ pc = "meta"
  /\ scrolls = <<"bottom", "middle", "top">>
  /\ ~timer /\ resolved

\* The metadata fields, the value the structured data supplies for each, and
\* the field's meta tags by tier
Fields == {"title", "description", "image", "author", "publishDate"}

FromStructuredData(d, field) ==
  LET sd == extractStructuredData(d) IN
  IF sd.kind = "null" THEN <<>>
  ELSE CASE field = "title" -> sd.headline
         [] field = "description" -> sd.description
         [] field = "image" -> StructuredImage(sd, <<>>)
         [] field = "author" -> StructuredAuthor(sd, <<>>)
         [] field = "publishDate" -> sd.datePublished

OpenGraphOrTwitterKeys(field) ==
  CASE field = "title" -> {"og:title", "twitter:title"}
    [] field = "description" -> {"og:description", "twitter:description"}
    [] field = "image" -> {"og:image", "twitter:image"}
    [] field = "author" -> {"article:author", "twitter:creator"}
    [] field = "publishDate" -> {"article:published_time"}

GenericKeys(field) ==
  CASE field = "title" -> {"title"}
    [] field = "description" -> {"description"}
    [] field = "image" -> {"image"}
    [] field = "author" -> {"author"}
    [] field = "publishDate" -> {"publication_date", "date"}

\* The order in which the meta tags of a field are read, as amended
MetaOrder(field) ==
  CASE field = "title" -> <<"og:title", "twitter:title", "title", "article:title">>
    [] field = "description" -> <<"og:description", "twitter:description", "description">>
    [] field = "image" -> <<"og:image", "twitter:image", "image", "image_src">>
    [] field = "author" -> <<"author", "article:author", "twitter:creator">>
    [] field = "publishDate" -> <<"article:published_time", "publication_date", "date">>

MetadataRead == pc \in {"image", "locate", "extract", "clean", "stats", "excerpt", "done"}

\* C22 as stated: a field the structured data does not supply is never taken
\* from a generic meta name tag while an Open Graph or Twitter Card tag has a
\* value for it.
C22_OpenGraphBeforeGeneric ==
  MetadataRead =>
    \A field \in Fields :
      (/\ FromStructuredData(doc, field) = <<>>
       /\ \E key \in OpenGraphOrTwitterKeys(field) : doc.meta[key] # <<>>) =>
        \A key \in GenericKeys(field) :
          doc.meta[key] # <<>> => result[field] # doc.meta[key]

\* C22 amended: every field takes the structured data's value when there is
\* one, and otherwise the value of the first of its meta tags that has one,
\* in the order of MetaOrder: Open Graph, Twitter Card, generic name for the
\* description and the image; name="author" before article:author and
\* twitter:creator; name="title" before article:title.
C22_FirstSupplyingTag ==
  MetadataRead =>
    \A field \in Fields :
      LET order == MetaOrder(field)
          supplied == {k \in 1..Len(order) : doc.meta[order[k]] # <<>>}
      IN IF FromStructuredData(doc, field) # <<>>
         THEN result[field] = FromStructuredData(doc, field)
         ELSE supplied # {} => result[field] = doc.meta[order[Min(supplied)]]

\* C22 witness: no structured data, name="author" and article:author both
\* present, and the author is the generic tag's.
C22_Witness ==
  /\ pc = "done"
  /\ FromStructuredData(doc, "author") = <<>>
  /\ doc.meta["author"] # <<>> /\ doc.meta["article:author"] # <<>>
  /\ result.author = doc.meta["author"]

\* C23: when the summarization at the requested length fails because the
\* content exceeds the Summarizer's input quota, and the requested length is
\* not the shortest, smartSummarize does not throw on that first failure.
C23_QuotaFailureTriesAnotherLength ==
  ~(/\ smartCall.pc = "thrown"
    /\ smartCall.requestedLength # "short"
    /\ smartCall.errors = <<"QuotaExceededError">>)

\* The stored list holds at most 50 cards, the newest first
AtMostFiftyNewestFirst ==
  /\ Len(storage) <= MAX_SAVED_CARDS
  /\ \A k \in 1..Len(storage) - 1 : storage[k].id >= storage[k + 1].id

\* A save that completes puts the new card first and keeps the cards stored
\* before it, but for the oldest when the list was full; a delete that
\* completes removes the cards with its id and leaves the others as they were
SaveAndDeleteAsStated ==
  \A slot \in 1..MaxCalls :
    LET call == storageCalls[slot] IN
    /\ (CardsWritten(slot) /\ call.op = "save") =>
         storage' = <<call.cardData>> \o
                    SubSeq(storage, 1, IF Len(storage) < MAX_SAVED_CARDS
                                       THEN Len(storage)
                                       ELSE MAX_SAVED_CARDS - 1)
    /\ (CardsWritten(slot) /\ call.op = "delete") =>
         storage' = WithoutCard(storage, call.cardId)

\* C24: with save, delete-by-id and clear-all made one after the other, the
\* stored list always holds at most 50 cards, the newest first; a save into a
\* full list keeps the new card and drops the oldest; a delete removes the
\* card with the id and leaves every other card and the order unchanged.
C24_StoredListKept == []AtMostFiftyNewestFirst /\ [][SaveAndDeleteAsStated]_vars

\* The ids of the stored cards are distinct once no call is in flight
DistinctIds ==
  NoCallInFlight =>
    \A j, k \in 1..Len(storage) : storage[j].id = storage[k].id => j = k

Has(cards, card) == \E k \in 1..Len(cards) : cards[k] = card

\* A save or a delete that read the stored list and completes leaves in the
\* list every card stored by then, but for the oldest of a full list (save)
\* and the cards with the id (delete)
NoCardLost ==
  \A slot \in 1..MaxCalls :
    LET call == storageCalls[slot] IN
    (CardsWritten(slot) /\ ~call.readFailed) =>
      \A k \in 1..Len(storage) :
        \/ Has(storage', storage[k])
        \/ call.op = "save" /\ k >= MAX_SAVED_CARDS
        \/ call.op = "delete" /\ storage[k].id = call.cardId
        \/ call.op = "clear"

\* C29: when two saves, or a save and a delete, overlap, the stored list
\* holds, once both have completed, every card that was saved and not
\* deleted, each with an id of its own.
C29_NoCardLostToInterleaving == []DistinctIds /\ [][NoCardLost]_vars

\* At most one LanguageModel.create call since the session was last reset
AtMostOneCreated == creates <= 1

\* A generation that starts is given a session created with the sliders'
\* values, whether cached or created for it
UsesNewParameters ==
  \A slot \in 1..MaxAiCalls :
    /\ (generateText(slot) /\ session.kind # "null") =>
         /\ session.temperature = settings.temperature
         /\ session.topK = settings.topK
    /\ SessionCreated(slot) =>
         /\ session'.temperature = aiCalls[slot].params.temperature
         /\ session'.topK = aiCalls[slot].params.topK

\* C25: between two resets of the session at most one session is created,
\* even when generateText calls overlap, and the first generation after a
\* change of the temperature or of top-K uses a session created with the new
\* values.
C25_OneSessionWithNewParameters ==
  []AtMostOneCreated /\ [][UsesNewParameters]_vars

\* An auto-hide timeout that fires leaves alone the message of any other
\* showStatus or showError call than the one that started it
HidesItsOwnMessageOnly ==
  \A hideTimer \in hideTimers :
    HideTimerFires(hideTimer) =>
      /\ (hideTimer.element = "status" /\ statusElement.call # hideTimer.call)
           => statusElement' = statusElement
      /\ (hideTimer.element = "error" /\ errorElement.call # hideTimer.call)
           => errorElement' = errorElement

\* C30: a status or error message shown without auto-hide stays visible until
\* it is hidden or replaced: the auto-hide timeout started by an earlier
\* showStatus or showError call never hides the message of a later call.
C30_EarlierTimerSparesLaterMessage == [][HidesItsOwnMessageOnly]_vars

\* C26: when a container that is no noise has at least 300 characters of
\* text and clears the link-density and content-density gates of phase 2,
\* findMainContent returns an element, whatever the composite scores.
C26_GateClearingCandidateReturned ==
  pc = "extract" =>
    (ScoredInPhase2(doc.nodes) # {} => mainElement # 0)

\* C27: in every extraction result readingTime is wordCount / 200 rounded up,
\* both computed from the same final content; a result with empty content has
\* wordCount 0 and readingTime 0.
C27_ReadingTimeFromWordCount ==
  pc \in {"excerpt", "done"} =>
    /\ result.readingTime =
         (result.wordCount + WORDS_PER_MINUTE - 1) \div WORDS_PER_MINUTE
    /\ result.content = <<>> => (result.wordCount = 0 /\ result.readingTime = 0)

\* The blank lines of a text: its runs of two newlines or more
BlankLines(t) == Cardinality({k \in 1..Len(t) : t[k][1] = "\n" /\ t[k][2] >= 2})

\* C28: when extractStructuredText emits two consecutive accepted blocks
\* within the 20,000-character limit, the cleaned content still separates them
\* by a blank line, whatever the first ends with and the second begins with.
C28_BlockBoundariesSurvive ==
  (/\ pc = "stats"
   /\ mainElement # 0
   /\ TLen(StructuredText(clone)) <= MAX_CONTENT_LENGTH) =>
    BlankLines(result.content) >= Len(Parts(clone)) - 1

=============================================================================
